---- MODULE Spec2Model ----
(***************************************************************************)
(* SOFS14 storage engine: free-inode list, free-data-cluster pools         *)
(* (retrieval cache, insertion cache, general repository), the resident    *)
(* slots of the basic-operations layer and the inode content tree.         *)
(*                                                                         *)
(* Every C function is an operator from a machine state record `st` to the *)
(* machine state it leaves, with the C return value in st.rc and the       *)
(* values stored through output pointers in st.out / st.buf / st.ino.      *)
(* Pointers into the static areas of sofs_basicoper.c (soGetSuperBlock,    *)
(* soGetBlockInT, soGetSngIndRefClust, soGetDirRefClust) are accesses to   *)
(* the fields sb, inode, sngIndRefClust, dirRefClust of the record.        *)
(*                                                                         *)
(* A function binds the result of a step with With:                        *)
(* With([s \in {e} |-> b]) is b with s standing for the value of e.        *)
(* The functions of sofs_ifuncs_1 to sofs_ifuncs_3 call one another        *)
(* through Invoke.                                                         *)
(*                                                                         *)
(* The array sizes IPB, N_DIRECT, RPC, DZONE_CACHE_SIZE and DPC are scaled *)
(* down from 8, 7, 509, 50 and 31 so that every band of the content tree,  *)
(* every replenish / deplete path and the growth of a directory are        *)
(* exercised on a small image.                                             *)
(*                                                                         *)
(* The body of a data cluster is a union: it is kept as the two views the  *)
(* code uses, the references ref[] and the directory entries de[], the     *)
(* first bytes of the name of de[0] being the bytes of ref[].  A character *)
(* is its code, a name the sequence of its bytes up to the last one that   *)
(* is not NUL.                                                             *)
(***************************************************************************)
EXTENDS Integers, Sequences, FiniteSets, TLC

(***************************************************************************)
(* Program constants                                                       *)
(***************************************************************************)
NULL_CLUSTER == 65535
NULL_INODE == 65535
BLOCKS_PER_CLUSTER == 4
CLUSTER_SIZE == 2048
IPB == 2
N_DIRECT == 2
RPC == 2
DZONE_CACHE_SIZE == 2
INODE_FREE == 4096
INODE_DIR == 2048
INODE_FILE == 1024
INODE_SYMLINK == 512
IUIN == 0
FDIN == 1
GET == 0
ALLOC == 1
FREE == 2
FREE_CLEAN == 3
CLEAN == 4
FREE_CLT == 1
ALLOC_CLT == 0
EIO == 5
EINVAL == 22
ENOSPC == 28
ELIBBAD == 80
EFININVAL == 515
ESBDZINVAL == 516
ETINDLLINVAL == 514
EFCININVAL == 520
EFDININVAL == 521
EIUININVAL == 522
ELDCININVAL == 523
EDCARDYIL == 526
EDCNOTIL == 527
EWGINODENB == 528
EDCNALINVAL == 530
ESBFCCINVAL == 517
EFCDLLINVAL == 518
EDCINVAL == 519
DPC == 4
DirEntrySize == 64
MAX_NAME == 59
MAX_PATH == 254
INODE_RD_USR == 256
INODE_WR_USR == 128
INODE_EX_USR == 64
INODE_RD_GRP == 32
INODE_WR_GRP == 16
INODE_EX_GRP == 8
INODE_RD_OTH == 4
INODE_WR_OTH == 2
INODE_EX_OTH == 1
R == 4
W == 2
X == 1
ADD == 0
ATTACH == 1
REM == 0
DETACH == 1
EPERM == 1
ENOENT == 2
EACCES == 13
EEXIST == 17
ENOTDIR == 20
EFBIG == 27
EMLINK == 31
ENAMETOOLONG == 36
ENOTEMPTY == 39
ELOOP == 40
EDIRINVAL == 524
EDEINVAL == 525
ERELPATH == 529
Slash == 47

\* uint32_t arithmetic, with words of 16 bits in place of 32 (the all-ones
\* word is NULL_CLUSTER and NULL_INODE)
U32 == 65536
MAX_FILE_CLUSTERS == N_DIRECT + RPC + (RPC * RPC)
MAX_CLUSTER_COUNT == MAX_FILE_CLUSTERS + 2 + RPC
BSLPC == CLUSTER_SIZE - 12
MAX_FILE_SIZE == BSLPC * MAX_FILE_CLUSTERS

(***************************************************************************)
(* Bounds of the model: the geometry of the formatted image and the        *)
(* number of operations of a run.                                          *)
(***************************************************************************)
ITableSize == 2
DZoneTotal == 6
MaxOps == 2
MaxInodeOps == 5
MaxRefOps == 6
MaxFaultOps == 3
MaxAllocOps == 8
MaxTreeOps == 5
MaxCollapseOps == 4
MaxTruncateOps == 5
MaxDirOps == 4
MaxLookupOps == 3
MaxRenameOps == 3
MaxSymOps == 3
MaxAccessOps == 2
MaxFillOps == 3
MaxGetOps == 4
MaxTypeOps == 3
MaxChainOps == 4
MaxBandOps == 4
MaxSlotOps == 4
MaxStaleOps == 4
MaxFrameOps == 4
MaxStickyOps == 3
MaxFarOps == 3
MaxMkfsOps == 3
MaxIO == 3
REFCOUNT_MAX == 4

iTableSize == ITableSize
iTotal == ITableSize * IPB
dZoneStart == iTableSize + 1
dZoneTotal == DZoneTotal
nTotal == dZoneStart + dZoneTotal * BLOCKS_PER_CLUSTER

Inodes == 0 .. (iTotal - 1)
Clusters == 0 .. (dZoneTotal - 1)
CacheIdx == 0 .. (DZONE_CACHE_SIZE - 1)
RefIdx == 0 .. (RPC - 1)
DirIdx == 0 .. (N_DIRECT - 1)
DeIdx == 0 .. (DPC - 1)

(***************************************************************************)
(* State                                                                   *)
(***************************************************************************)
VARIABLES
  sb,              \* static SOSuperBlock sb (resident copy)
  sbLoaded,        \* static int sbLoaded
  sbError,         \* static int sbError
  inode,           \* static SOInode inode[IPB] (resident inode-table block)
  nBlkInTLoaded,   \* static int nBlkInTLoaded
  intError,        \* static int intError
  sngIndRefClust,  \* static SODataClust sngIndRefClust
  nClustSIRef,     \* static int nClustSIRef
  sircError,       \* static int sircError
  dirRefClust,     \* static SODataClust dirRefClust
  nClustDRef,      \* static int nClustDRef
  drcError,        \* static int drcError
  dSb,             \* block 0 of the device
  dInT,            \* the inode table on the device, indexed by inode number
  dZone,           \* the data zone on the device, indexed by logical cluster
  call,            \* the last operation called: its name, its inode number,
                   \* one more argument (cluster number, type or sub-operation),
                   \* its cluster index and which of its transfers fails (io)
  res,             \* what the last operation returned (rc, out) and what is
                   \* left of the count of transfers before the failing one
  nOps             \* number of operations called so far

vars == <<sb, sbLoaded, sbError, inode, nBlkInTLoaded, intError, sngIndRefClust,
          nClustSIRef, sircError, dirRefClust, nClustDRef, drcError, dSb, dInT,
          dZone, call, res, nOps>>

(***************************************************************************)
(* Records                                                                 *)
(***************************************************************************)
NullRefs == [i \in RefIdx |-> NULL_CLUSTER]
ZeroRefs == [i \in RefIdx |-> 0]
NullDirect == [i \in DirIdx |-> NULL_CLUSTER]

MkInode(mode, cluCount, vD1, vD2, d, i1, i2) ==
  [mode |-> mode, refCount |-> 0, owner |-> 0, group |-> 0, size |-> 0,
   cluCount |-> cluCount, vD1 |-> vD1, vD2 |-> vD2, d |-> d, i1 |-> i1, i2 |-> i2]

\* SODirEntry: name[0 .. MAX_NAME-1] as the bytes up to the last non-NUL one,
\* name[MAX_NAME] in last
MkDirEntry(name, nInode) == [name |-> name, last |-> 0, nInode |-> nInode]
\* an entry of NUL bytes
ZeroDirEntry == MkDirEntry(<<>>, 0)
\* a free entry in the clean state
CleanDirEntry == MkDirEntry(<<>>, NULL_INODE)
ZeroDir == [i \in DeIdx |-> ZeroDirEntry]

\* a sequence of bytes without its trailing NUL bytes
RECURSIVE Trim(_)
Trim(b) == IF b = <<>> \/ b[Len(b)] # 0 THEN b ELSE Trim(SubSeq(b, 1, Len(b) - 1))

\* byte j (from 0) of a name
ByteOf(name, j) == IF j < Len(name) THEN name[j + 1] ELSE 0

\* the references that the first bytes of de[0].name are, a word being two bytes
AsRefs(de) ==
  [i \in RefIdx |-> ByteOf(de[0].name, 2 * i) + (256 * ByteOf(de[0].name, (2 * i) + 1))]

\* the name that has the bytes of ref[] for its first bytes and those of name after them
BytesOnto(ref, name) ==
  Trim([j \in 1 .. (IF Len(name) > 2 * RPC THEN Len(name) ELSE 2 * RPC) |->
          IF j <= 2 * RPC
          THEN IF (j - 1) % 2 = 0 THEN ref[(j - 1) \div 2] % 256
                                  ELSE ref[(j - 1) \div 2] \div 256
          ELSE name[j]])

MkClust(prev, next, stat, ref) ==
  [prev |-> prev, next |-> next, stat |-> stat, ref |-> ref,
   de |-> [ZeroDir EXCEPT ![0].name = BytesOnto(ref, <<>>)]]

\* a cluster whose body was written as references, seen as directory entries
RefView(c) == [c EXCEPT !.de[0].name = BytesOnto(c.ref, @)]
\* a cluster whose body was written as directory entries, seen as references
DeView(c, de) == [c EXCEPT !.de = de, !.ref = AsRefs(de)]

\* mode & INODE_FREE
FreeBit(mode) == (mode \div INODE_FREE) % 2
\* mode & INODE_TYPE_MASK
TypeBits(mode) == (mode % INODE_FREE) - (mode % INODE_SYMLINK)

\* the value time(NULL) yields (one instant later than the formatting time 0)
Now(st) == 1

\* the value of body with x bound to the value of e: With([x \in {e} |-> body])
With(f) == f[CHOOSE x \in DOMAIN f : TRUE]

Ret(st, c) == [st EXCEPT !.rc = c]

(***************************************************************************)
(* Device access (buffer cache over the raw device).  st.io = k > 0 makes  *)
(* the k-th transfer of the running operation fail with EIO; st.io = 0     *)
(* lets every transfer succeed.  wlog records what the running operation   *)
(* has written, in the order of the transfers: a cluster, a block of the   *)
(* table of inodes or the superblock.                                      *)
(***************************************************************************)
Tick(st) ==
  IF st.io = 1 THEN [st EXCEPT !.io = 0, !.rc = -EIO]
  ELSE [st EXCEPT !.io = IF st.io > 1 THEN st.io - 1 ELSE 0, !.rc = 0]

\* physical number of the first block of logical cluster c, in uint32_t arithmetic
Phys(c) == (dZoneStart + c * BLOCKS_PER_CLUSTER) % U32
\* logical number of the cluster whose first block is n
Logic(n) == (n - dZoneStart) \div BLOCKS_PER_CLUSTER
InDataZone(n) ==
  /\ n >= dZoneStart
  /\ (n - dZoneStart) % BLOCKS_PER_CLUSTER = 0
  /\ n < dZoneStart + dZoneTotal * BLOCKS_PER_CLUSTER

soReadCacheBlockSB(st) ==
  With([t \in {Tick(st)} |->
  IF t.rc # 0 THEN t ELSE [t EXCEPT !.sb = st.dSb]])

soWriteCacheBlockSB(st) ==
  With([t \in {Tick(st)} |->
  IF t.rc # 0 THEN t ELSE [t EXCEPT !.dSb = st.sb, !.wlog = Append(@, "superblock")]])

soReadCacheBlockInT(st, nBlk) ==
  With([t \in {Tick(st)} |->
  IF t.rc # 0 THEN t
  ELSE [t EXCEPT !.inode = [o \in 0 .. (IPB - 1) |-> st.dInT[nBlk * IPB + o]]]])

soWriteCacheBlockInT(st, nBlk) ==
  With([t \in {Tick(st)} |->
  IF t.rc # 0 THEN t
  ELSE [t EXCEPT !.dInT = [n \in Inodes |->
                     IF n \div IPB = nBlk THEN st.inode[n % IPB] ELSE st.dInT[n]],
                  !.wlog = Append(@, "inode block")]])

soReadCacheCluster(st, n) ==
  IF n + BLOCKS_PER_CLUSTER > nTotal \/ ~InDataZone(n) THEN Ret(st, -EINVAL)
  ELSE With([t \in {Tick(st)} |->
       IF t.rc # 0 THEN t ELSE [t EXCEPT !.buf = st.dZone[Logic(n)]]])

soWriteCacheCluster(st, n, c) ==
  IF n + BLOCKS_PER_CLUSTER > nTotal \/ ~InDataZone(n) THEN Ret(st, -EINVAL)
  ELSE With([t \in {Tick(st)} |->
       IF t.rc # 0 THEN t ELSE [t EXCEPT !.dZone[Logic(n)] = c,
                                         !.wlog = Append(@, "cluster")]])

(***************************************************************************)
(* sofs_basicoper.c                                                        *)
(***************************************************************************)
soLoadSuperBlock(st) ==
  IF st.sbError # 0 THEN Ret(st, st.sbError)
  ELSE IF st.sbLoaded = 1 THEN Ret(st, 0)
  ELSE With([t \in {soReadCacheBlockSB(st)} |->
       IF t.rc = 0 THEN [t EXCEPT !.sbLoaded = 1]
       ELSE [t EXCEPT !.sbLoaded = -1, !.sbError = t.rc]])

soStoreSuperBlock(st) ==
  IF st.sbError # 0 THEN Ret(st, st.sbError)
  ELSE IF st.sbLoaded = 0
       THEN [st EXCEPT !.sbLoaded = -1, !.sbError = -ELIBBAD, !.rc = -ELIBBAD]
  ELSE With([t \in {soWriteCacheBlockSB(st)} |->
       IF t.rc # 0 THEN [t EXCEPT !.sbLoaded = -1, !.sbError = t.rc] ELSE t])

\* *p_nBlk and *p_offset are returned in cnv = <<nBlk, offset>>
soConvertRefInT(st, nInode) ==
  With([t \in {soLoadSuperBlock(st)} |->
  IF t.rc # 0 THEN t
  ELSE IF nInode >= iTotal THEN Ret(t, -EINVAL)
  ELSE [t EXCEPT !.rc = 0, !.cnv = <<nInode \div IPB, nInode % IPB>>]])

soLoadBlockInT(st, nBlk) ==
  With([t \in {soLoadSuperBlock(st)} |->
  IF t.rc # 0 THEN t
  ELSE IF nBlk >= iTableSize THEN Ret(t, -EINVAL)
  ELSE IF t.intError # 0 THEN Ret(t, t.intError)
  ELSE IF nBlk = t.nBlkInTLoaded THEN Ret(t, 0)
  ELSE With([u \in {soReadCacheBlockInT(t, nBlk)} |->
       IF u.rc = 0 THEN [u EXCEPT !.nBlkInTLoaded = nBlk]
       ELSE [u EXCEPT !.nBlkInTLoaded = -1, !.intError = u.rc]])])

soStoreBlockInT(st) ==
  IF st.intError # 0 THEN Ret(st, st.intError)
  ELSE IF st.nBlkInTLoaded < 0
       THEN [st EXCEPT !.nBlkInTLoaded = -2, !.intError = -ELIBBAD, !.rc = -ELIBBAD]
  ELSE With([t \in {soWriteCacheBlockInT(st, st.nBlkInTLoaded)} |->
       IF t.rc # 0 THEN [t EXCEPT !.nBlkInTLoaded = -2, !.intError = t.rc] ELSE t])

soLoadSngIndRefClust(st, nClust) ==
  With([t \in {soLoadSuperBlock(st)} |->
  IF t.rc # 0 THEN t
  ELSE IF ~InDataZone(nClust) THEN Ret(t, -EINVAL)
  ELSE IF t.sircError # 0 THEN Ret(t, t.sircError)
  ELSE IF nClust = t.nClustSIRef THEN Ret(t, 0)
  ELSE With([u \in {soReadCacheCluster(t, nClust)} |->
       IF u.rc = 0 THEN [u EXCEPT !.nClustSIRef = nClust, !.sngIndRefClust = u.buf]
       ELSE [u EXCEPT !.nClustSIRef = -2, !.sircError = u.rc]])])

soStoreSngIndRefClust(st) ==
  IF st.sircError # 0 THEN Ret(st, st.sircError)
  ELSE IF st.nClustSIRef < 0
       THEN [st EXCEPT !.nClustSIRef = -2, !.sircError = -ELIBBAD, !.rc = -ELIBBAD]
  ELSE With([t \in {soWriteCacheCluster(st, st.nClustSIRef, RefView(st.sngIndRefClust))} |->
       IF t.rc # 0 THEN [t EXCEPT !.nClustSIRef = -2, !.sircError = t.rc] ELSE t])

\* soLoadDirRefClust without the test of drcError
soLoadDirRefClust_noSticky(st, nClust) ==
  With([t \in {soLoadSuperBlock(st)} |->
  IF t.rc # 0 THEN t
  ELSE IF ~InDataZone(nClust) THEN Ret(t, -EINVAL)
  ELSE IF nClust = t.nClustDRef THEN Ret(t, 0)
  ELSE With([u \in {soReadCacheCluster(t, nClust)} |->
       IF u.rc = 0 THEN [u EXCEPT !.nClustDRef = nClust, !.dirRefClust = u.buf]
       ELSE [u EXCEPT !.nClustDRef = -2, !.drcError = u.rc]])])

soLoadDirRefClust(st, nClust) ==
  With([t \in {soLoadSuperBlock(st)} |->
  IF t.rc # 0 THEN t
  ELSE IF ~InDataZone(nClust) THEN Ret(t, -EINVAL)
  ELSE IF t.drcError # 0 THEN Ret(t, t.drcError)
  ELSE IF nClust = t.nClustDRef THEN Ret(t, 0)
  ELSE With([u \in {soReadCacheCluster(t, nClust)} |->
       IF u.rc = 0 THEN [u EXCEPT !.nClustDRef = nClust, !.dirRefClust = u.buf]
       ELSE [u EXCEPT !.nClustDRef = -2, !.drcError = u.rc]])])

\* with no cluster loaded the function records -ELIBBAD in drcError but
\* returns the value of sircError
soStoreDirRefClust(st) ==
  IF st.drcError # 0 THEN Ret(st, st.drcError)
  ELSE IF st.nClustDRef < 0
       THEN [st EXCEPT !.nClustDRef = -2, !.drcError = -ELIBBAD, !.rc = st.sircError]
  ELSE With([t \in {soWriteCacheCluster(st, st.nClustDRef, RefView(st.dirRefClust))} |->
       IF t.rc # 0 THEN [t EXCEPT !.nClustDRef = -2, !.drcError = t.rc] ELSE t])

\* soGetSuperBlock, soGetBlockInT, soGetSngIndRefClust, soGetDirRefClust: TRUE
\* when the function returns the address of the storage area, FALSE when it
\* returns NULL
soGetSuperBlock(st) == st.sbLoaded = 1
soGetBlockInT(st) == st.nBlkInTLoaded >= 0
soGetSngIndRefClust(st) == st.nClustSIRef >= 0
soGetDirRefClust(st) == st.nClustDRef >= 0

(***************************************************************************)
(* The free pools as the superblock and the device describe them           *)
(***************************************************************************)
\* live part of the retrieval cache: cache[cacheIdx .. DZONE_CACHE_SIZE-1]
RetrievLive(s) ==
  [i \in 1 .. (DZONE_CACHE_SIZE - s.dZoneRetriev.cacheIdx) |->
      s.dZoneRetriev.cache[s.dZoneRetriev.cacheIdx + i - 1]]
\* live part of the insertion cache: cache[0 .. cacheIdx-1]
InsertLive(s) ==
  [i \in 1 .. s.dZoneInsert.cacheIdx |-> s.dZoneInsert.cache[i - 1]]

\* clusters met following the stored next fields from c, at most n of them
RECURSIVE WalkClusters(_, _, _)
WalkClusters(dz, c, n) ==
  IF n = 0 \/ c \notin Clusters THEN <<>>
  ELSE <<c>> \o WalkClusters(dz, dz[c].next, n - 1)

SpillList(s, dz) == WalkClusters(dz, s.dHead, dZoneTotal + 1)

\* the general repository is a well-formed double-linked list from dHead to dTail
SpillWellFormed(s, dz) ==
  With([L \in {SpillList(s, dz)} |->
  /\ Len(L) <= dZoneTotal
  /\ IF Len(L) = 0
     THEN s.dHead = NULL_CLUSTER /\ s.dTail = NULL_CLUSTER
     ELSE /\ s.dTail = L[Len(L)]
          /\ dz[L[Len(L)]].next = NULL_CLUSTER
          /\ dz[L[1]].prev = NULL_CLUSTER
          /\ \A i \in 2 .. Len(L) : dz[L[i]].prev = L[i - 1]])

\* inodes met following the stored next fields (vD1) from n, at most k of them
RECURSIVE WalkInodes(_, _, _)
WalkInodes(it, n, k) ==
  IF k = 0 \/ n \notin Inodes THEN <<>>
  ELSE <<n>> \o WalkInodes(it, it[n].vD1, k - 1)

FreeInodeList(s, it) == WalkInodes(it, s.iHead, iTotal + 1)

FreeInodeListWellFormed(s, it) ==
  With([L \in {FreeInodeList(s, it)} |->
  /\ Len(L) = s.iFree
  /\ \A i \in 1 .. Len(L) : FreeBit(it[L[i]].mode) = 1
  /\ IF Len(L) = 0
     THEN s.iHead = NULL_INODE /\ s.iTail = NULL_INODE
     ELSE /\ s.iTail = L[Len(L)]
          /\ it[L[Len(L)]].vD1 = NULL_INODE
          /\ it[L[1]].vD2 = NULL_INODE
          /\ \A i \in 2 .. Len(L) : it[L[i]].vD2 = L[i - 1]])

(***************************************************************************)
(* sofs_basicconsist.h: the quick checks, as their interface documents     *)
(* them.  They inspect the superblock they are given and the device.       *)
(***************************************************************************)
RefLegal(r) == r = NULL_CLUSTER \/ r < dZoneTotal

RefsLegal(i) ==
  /\ \A k \in DirIdx : RefLegal(i.d[k])
  /\ RefLegal(i.i1)
  /\ RefLegal(i.i2)
  /\ i.cluCount <= MAX_CLUSTER_COUNT

soQCheckInT(st) ==
  IF st.sb.iFree > iTotal THEN -ETINDLLINVAL
  ELSE IF ~FreeInodeListWellFormed(st.sb, st.dInT) THEN -ETINDLLINVAL
  ELSE 0

soQCheckDZ(st) ==
  IF \/ st.sb.dZoneFree > dZoneTotal
     \/ st.sb.dZoneRetriev.cacheIdx > DZONE_CACHE_SIZE
     \/ st.sb.dZoneInsert.cacheIdx > DZONE_CACHE_SIZE
  THEN -ESBDZINVAL
  ELSE IF \/ \E i \in CacheIdx : i >= st.sb.dZoneRetriev.cacheIdx
                                   /\ st.sb.dZoneRetriev.cache[i] >= dZoneTotal
          \/ \E i \in CacheIdx : i < st.sb.dZoneInsert.cacheIdx
                                   /\ st.sb.dZoneInsert.cache[i] >= dZoneTotal
  THEN -ESBFCCINVAL
  ELSE IF ~SpillWellFormed(st.sb, st.dZone) THEN -EFCDLLINVAL
  ELSE IF st.sb.dZoneFree # (DZONE_CACHE_SIZE - st.sb.dZoneRetriev.cacheIdx)
                            + st.sb.dZoneInsert.cacheIdx
                            + Len(SpillList(st.sb, st.dZone))
  THEN -ESBDZINVAL
  ELSE 0

soQCheckSuperBlock(st) ==
  IF soQCheckInT(st) # 0 THEN soQCheckInT(st) ELSE soQCheckDZ(st)

soQCheckFInode(i) ==
  IF FreeBit(i.mode) = 1 /\ i.refCount = 0 THEN 0 ELSE -EFININVAL

soQCheckFCInode(i) ==
  IF /\ i.mode = INODE_FREE
     /\ i.refCount = 0
     /\ i.size = 0
     /\ i.cluCount = 0
     /\ i.d = NullDirect
     /\ i.i1 = NULL_CLUSTER
     /\ i.i2 = NULL_CLUSTER
  THEN 0 ELSE -EFCININVAL

soQCheckFDInode(st, i) ==
  IF FreeBit(i.mode) = 0 THEN -EFDININVAL
  ELSE IF ~RefsLegal(i) THEN -ELDCININVAL
  ELSE 0

\* the content tree of inode i as the device holds it
NonNull(ref) == {ref[k] : k \in DOMAIN ref} \ {NULL_CLUSTER}
\* the clusters i1 and i2 reference, when those are legal references
I1Refs(dz, i) == IF i.i1 \in Clusters THEN NonNull(dz[i.i1].ref) ELSE {}
I2Children(dz, i) == IF i.i2 \in Clusters THEN NonNull(dz[i.i2].ref) ELSE {}
I2Refs(dz, i) ==
  UNION {NonNull(dz[c].ref) : c \in I2Children(dz, i) \cap Clusters}
\* indirection clusters, then data clusters
IndirClusters(dz, i) == ({i.i1, i.i2} \ {NULL_CLUSTER}) \cup I2Children(dz, i)
DataClusters(dz, i) == NonNull(i.d) \cup I1Refs(dz, i) \cup I2Refs(dz, i)
TreeClusters(dz, i) == IndirClusters(dz, i) \cup DataClusters(dz, i)

NonNullCount(ref) == Cardinality({k \in DOMAIN ref : ref[k] # NULL_CLUSTER})
RECURSIVE SumChildCounts(_, _, _)
\* references held by the clusters that ref[k], ref[k+1], ... name
SumChildCounts(dz, ref, k) ==
  IF k >= RPC THEN 0
  ELSE (IF ref[k] \in Clusters THEN NonNullCount(dz[ref[k]].ref) ELSE 0)
       + SumChildCounts(dz, ref, k + 1)

\* number of references of the tree: data references plus indirection clusters
TreeCount(dz, i) ==
  NonNullCount(i.d)
  + (IF i.i1 \in Clusters THEN 1 + NonNullCount(dz[i.i1].ref) ELSE 0)
  + (IF i.i2 \in Clusters
     THEN 1 + NonNullCount(dz[i.i2].ref) + SumChildCounts(dz, dz[i.i2].ref, 0)
     ELSE 0)

\* mode legal, references legal, reference graph consistent with cluCount,
\* every reachable cluster carrying the number of one and the same inode
soQCheckInodeIU(st, i) ==
  IF FreeBit(i.mode) = 1 \/ TypeBits(i.mode) \notin {INODE_DIR, INODE_FILE, INODE_SYMLINK}
  THEN -EIUININVAL
  ELSE IF ~RefsLegal(i) \/ ~(TreeClusters(st.dZone, i) \subseteq Clusters)
  THEN -ELDCININVAL
  ELSE IF i.cluCount # TreeCount(st.dZone, i) THEN -ELDCININVAL
  ELSE IF ~\E n \in Inodes : \A c \in TreeClusters(st.dZone, i) : st.dZone[c].stat = n
  THEN -EDCINVAL
  ELSE 0

\* *p_stat (returned in pstat): FREE_CLT when the reference is in one of the caches or in the
\* general repository, ALLOC_CLT otherwise
StatDC(st, nClust) ==
  IF \/ \E i \in CacheIdx : i >= st.sb.dZoneRetriev.cacheIdx
                              /\ st.sb.dZoneRetriev.cache[i] = nClust
     \/ \E i \in CacheIdx : i < st.sb.dZoneInsert.cacheIdx
                              /\ st.sb.dZoneInsert.cache[i] = nClust
     \/ \E i \in 1 .. Len(SpillList(st.sb, st.dZone)) :
             SpillList(st.sb, st.dZone)[i] = nClust
  THEN FREE_CLT ELSE ALLOC_CLT

soQCheckStatDC(st, nClust) ==
  IF nClust >= dZoneTotal THEN Ret(st, -EINVAL)
  ELSE [st EXCEPT !.rc = 0, !.pstat = StatDC(st, nClust)]

(***************************************************************************)
(* The image the operations start from, and the process state before the   *)
(* first operation.  The superblock is the one fillInSuperBlock writes.    *)
(* The inode table and the data zone are the consistent image those        *)
(* fields describe: inode 0 and logical cluster 0 hold the root directory, *)
(* every other inode is on the free list, every other cluster is in the    *)
(* general repository with stat = NULL_INODE.  Where fillInINT and         *)
(* fillInGenRep store something else (a physical number in d[0], prev and  *)
(* next, next - 2 as the prev of the last inode, no stat) the image takes  *)
(* the value the list and tree operations below require of their input.    *)
(***************************************************************************)
NullCache == [cacheIdx |-> 0, cache |-> [i \in CacheIdx |-> NULL_CLUSTER]]

FormattedSuperBlock ==
  [iFree |-> iTotal - 1, iHead |-> 1, iTail |-> iTotal - 1,
   dZoneFree |-> dZoneTotal - 1,
   dZoneRetriev |-> [NullCache EXCEPT !.cacheIdx = DZONE_CACHE_SIZE],
   dZoneInsert |-> NullCache,
   dHead |-> 1, dTail |-> dZoneTotal - 1]

FormattedInT ==
  [n \in Inodes |->
     IF n = 0
     THEN [MkInode(INODE_DIR + 511, 1, 0, 0, [NullDirect EXCEPT ![0] = 0],
                   NULL_CLUSTER, NULL_CLUSTER)
             EXCEPT !.refCount = 2, !.size = DPC * DirEntrySize]
     ELSE MkInode(INODE_FREE, 0,
                  IF n = iTotal - 1 THEN NULL_INODE ELSE n + 1,
                  IF n = 1 THEN NULL_INODE ELSE n - 1,
                  NullDirect, NULL_CLUSTER, NULL_CLUSTER)]

\* the first bytes of the root directory (the name "." of entry 0, then
\* zeros) seen as the references ref[0], ref[1], ...
RootDirAsRefs == [i \in RefIdx |-> IF i = 0 THEN 46 ELSE 0]

\* the names "." and ".."
Dot == <<46>>
DotDot == <<46, 46>>

\* the entries of a directory that holds nothing: "." is the directory
\* itself, ".." its parent, the other entries are free in the clean state
EmptyDir(nInode, nInodeParent) ==
  [i \in DeIdx |->
     IF i = 0 THEN MkDirEntry(Dot, nInode)
     ELSE IF i = 1 THEN MkDirEntry(DotDot, nInodeParent)
     ELSE CleanDirEntry]

FormattedDZone ==
  [c \in Clusters |->
     IF c = 0 THEN [MkClust(NULL_CLUSTER, NULL_CLUSTER, 0, RootDirAsRefs)
                      EXCEPT !.de = EmptyDir(0, 0)]
     ELSE MkClust(IF c = 1 THEN NULL_CLUSTER ELSE c - 1,
                  IF c = dZoneTotal - 1 THEN NULL_CLUSTER ELSE c + 1,
                  NULL_INODE, ZeroRefs)]

ZeroSuperBlock ==
  [iFree |-> 0, iHead |-> 0, iTail |-> 0, dZoneFree |-> 0,
   dZoneRetriev |-> [cacheIdx |-> 0, cache |-> [i \in CacheIdx |-> 0]],
   dZoneInsert |-> [cacheIdx |-> 0, cache |-> [i \in CacheIdx |-> 0]],
   dHead |-> 0, dTail |-> 0]
ZeroInode == MkInode(0, 0, 0, 0, [i \in DirIdx |-> 0], 0, 0)
ZeroClust == MkClust(0, 0, 0, ZeroRefs)

(***************************************************************************)
(* A volume that holds directories: the root holds the empty directories   *)
(* d (inode 2) and s (inode 3).  Inode 1 and the clusters from 3 on are    *)
(* free in the clean state.                                                *)
(***************************************************************************)
NameD == <<100>>
NameS == <<115>>

DirSuperBlock ==
  [iFree |-> 1, iHead |-> 1, iTail |-> 1,
   dZoneFree |-> dZoneTotal - 3,
   dZoneRetriev |-> [NullCache EXCEPT !.cacheIdx = DZONE_CACHE_SIZE],
   dZoneInsert |-> NullCache,
   dHead |-> 3, dTail |-> dZoneTotal - 1]

DirInT ==
  [n \in Inodes |->
     IF n = 1
     THEN MkInode(INODE_FREE, 0, NULL_INODE, NULL_INODE, NullDirect,
                  NULL_CLUSTER, NULL_CLUSTER)
     ELSE [MkInode(INODE_DIR + 511, 1, 0, 0,
                   [NullDirect EXCEPT ![0] = IF n = 0 THEN 0 ELSE n - 1],
                   NULL_CLUSTER, NULL_CLUSTER)
             EXCEPT !.refCount = IF n = 0 THEN 4 ELSE 2,
                    !.size = DPC * DirEntrySize]]

DirDZone ==
  [c \in Clusters |->
     IF c = 0
     THEN DeView(MkClust(NULL_CLUSTER, NULL_CLUSTER, 0, ZeroRefs),
                 [EmptyDir(0, 0) EXCEPT ![2] = MkDirEntry(NameD, 2),
                                        ![3] = MkDirEntry(NameS, 3)])
     ELSE IF c = 1
     THEN DeView(MkClust(NULL_CLUSTER, NULL_CLUSTER, 2, ZeroRefs), EmptyDir(2, 0))
     ELSE IF c = 2
     THEN DeView(MkClust(NULL_CLUSTER, NULL_CLUSTER, 3, ZeroRefs), EmptyDir(3, 0))
     ELSE MkClust(IF c = 3 THEN NULL_CLUSTER ELSE c - 1,
                  IF c = dZoneTotal - 1 THEN NULL_CLUSTER ELSE c + 1,
                  NULL_INODE, ZeroRefs)]

InitDir ==
  /\ sb = ZeroSuperBlock
  /\ sbLoaded = 0
  /\ sbError = 0
  /\ inode = [o \in 0 .. (IPB - 1) |-> ZeroInode]
  /\ nBlkInTLoaded = -1
  /\ intError = 0
  /\ sngIndRefClust = ZeroClust
  /\ nClustSIRef = 0
  /\ sircError = 0
  /\ dirRefClust = ZeroClust
  /\ nClustDRef = 0
  /\ drcError = 0
  /\ dSb = DirSuperBlock
  /\ dInT = DirInT
  /\ dZone = DirDZone
  /\ call = [op |-> "none", nInode |-> 0, arg |-> 0, ind |-> 0, io |-> 0]
  /\ res = [rc |-> 0, out |-> 0, io |-> 0]
  /\ nOps = 0

(***************************************************************************)
(* A volume that holds symbolic links: the root holds the directory d      *)
(* (inode 2), and d holds the link l (inode 3) to "/d" and the link m      *)
(* (inode 1) to "/d/l".  No inode is free, the clusters from 4 on are free *)
(* in the clean state.                                                     *)
(***************************************************************************)
NameL == <<108>>
NameM == <<109>>
PathD == <<Slash>> \o NameD
PathDL == PathD \o <<Slash>> \o NameL
PathDM == PathD \o <<Slash>> \o NameM

SymSuperBlock ==
  [iFree |-> 0, iHead |-> NULL_INODE, iTail |-> NULL_INODE,
   dZoneFree |-> dZoneTotal - 4,
   dZoneRetriev |-> [NullCache EXCEPT !.cacheIdx = DZONE_CACHE_SIZE],
   dZoneInsert |-> NullCache,
   dHead |-> 4, dTail |-> dZoneTotal - 1]

SymInT ==
  [n \in Inodes |->
     IF n = 0 \/ n = 2
     THEN [MkInode(INODE_DIR + 511, 1, 0, 0,
                   [NullDirect EXCEPT ![0] = IF n = 0 THEN 0 ELSE 1],
                   NULL_CLUSTER, NULL_CLUSTER)
             EXCEPT !.refCount = IF n = 0 THEN 3 ELSE 2,
                    !.size = DPC * DirEntrySize]
     ELSE [MkInode(INODE_SYMLINK + 511, 1, 0, 0,
                   [NullDirect EXCEPT ![0] = IF n = 3 THEN 2 ELSE 3],
                   NULL_CLUSTER, NULL_CLUSTER)
             EXCEPT !.refCount = 1,
                    !.size = IF n = 3 THEN Len(PathD) ELSE Len(PathDL)]]

SymDZone ==
  [c \in Clusters |->
     IF c = 0
     THEN DeView(MkClust(NULL_CLUSTER, NULL_CLUSTER, 0, ZeroRefs),
                 [EmptyDir(0, 0) EXCEPT ![2] = MkDirEntry(NameD, 2)])
     ELSE IF c = 1
     THEN DeView(MkClust(NULL_CLUSTER, NULL_CLUSTER, 2, ZeroRefs),
                 [EmptyDir(2, 0) EXCEPT ![2] = MkDirEntry(NameL, 3),
                                        ![3] = MkDirEntry(NameM, 1)])
     ELSE IF c = 2
     THEN DeView(MkClust(NULL_CLUSTER, NULL_CLUSTER, 3, ZeroRefs),
                 [ZeroDir EXCEPT ![0].name = PathD])
     ELSE IF c = 3
     THEN DeView(MkClust(NULL_CLUSTER, NULL_CLUSTER, 1, ZeroRefs),
                 [ZeroDir EXCEPT ![0].name = PathDL])
     ELSE MkClust(IF c = 4 THEN NULL_CLUSTER ELSE c - 1,
                  IF c = dZoneTotal - 1 THEN NULL_CLUSTER ELSE c + 1,
                  NULL_INODE, ZeroRefs)]

InitSym ==
  /\ sb = ZeroSuperBlock
  /\ sbLoaded = 0
  /\ sbError = 0
  /\ inode = [o \in 0 .. (IPB - 1) |-> ZeroInode]
  /\ nBlkInTLoaded = -1
  /\ intError = 0
  /\ sngIndRefClust = ZeroClust
  /\ nClustSIRef = 0
  /\ sircError = 0
  /\ dirRefClust = ZeroClust
  /\ nClustDRef = 0
  /\ drcError = 0
  /\ dSb = SymSuperBlock
  /\ dInT = SymInT
  /\ dZone = SymDZone
  /\ call = [op |-> "none", nInode |-> 0, arg |-> 0, ind |-> 0, io |-> 0]
  /\ res = [rc |-> 0, out |-> 0, io |-> 0]
  /\ nOps = 0

Init ==
  /\ sb = ZeroSuperBlock
  /\ sbLoaded = 0
  /\ sbError = 0
  /\ inode = [o \in 0 .. (IPB - 1) |-> ZeroInode]
  /\ nBlkInTLoaded = -1
  /\ intError = 0
  /\ sngIndRefClust = ZeroClust
  /\ nClustSIRef = 0
  /\ sircError = 0
  /\ dirRefClust = ZeroClust
  /\ nClustDRef = 0
  /\ drcError = 0
  /\ dSb = FormattedSuperBlock
  /\ dInT = FormattedInT
  /\ dZone = FormattedDZone
  /\ call = [op |-> "none", nInode |-> 0, arg |-> 0, ind |-> 0, io |-> 0]
  /\ res = [rc |-> 0, out |-> 0, io |-> 0]
  /\ nOps = 0

\* the machine state an operation starts from: f is the transfer that fails
\* (0 for none); uid and gid are what getuid() and getgid() return, 0 for the
\* superuser
Cur(f) ==
  [sb |-> sb, sbLoaded |-> sbLoaded, sbError |-> sbError, inode |-> inode,
   nBlkInTLoaded |-> nBlkInTLoaded, intError |-> intError,
   sngIndRefClust |-> sngIndRefClust, nClustSIRef |-> nClustSIRef,
   sircError |-> sircError, dirRefClust |-> dirRefClust, nClustDRef |-> nClustDRef,
   drcError |-> drcError, dSb |-> dSb, dInT |-> dInT, dZone |-> dZone,
   io |-> f, rc |-> 0, out |-> 0, cnv |-> <<0, 0>>, pstat |-> 0,
   nClust |-> 0, buf |-> ZeroClust, ent |-> 0, idx |-> 0, dir |-> 0,
   nSymLinks |-> 0, oldNInodeDir |-> 0, uid |-> 0, gid |-> 0, log |-> <<>>,
   wlog |-> <<>>,
   ino |-> ZeroInode]

\* the machine state an operation leaves becomes the state of the program
Done(c, r, o, m) ==
  /\ nOps < m
  /\ sb' = r.sb
  /\ sbLoaded' = r.sbLoaded
  /\ sbError' = r.sbError
  /\ inode' = r.inode
  /\ nBlkInTLoaded' = r.nBlkInTLoaded
  /\ intError' = r.intError
  /\ sngIndRefClust' = r.sngIndRefClust
  /\ nClustSIRef' = r.nClustSIRef
  /\ sircError' = r.sircError
  /\ dirRefClust' = r.dirRefClust
  /\ nClustDRef' = r.nClustDRef
  /\ drcError' = r.drcError
  /\ dSb' = r.dSb
  /\ dInT' = r.dInT
  /\ dZone' = r.dZone
  /\ call' = c
  /\ res' = [rc |-> r.rc, out |-> o, io |-> r.io]
  /\ nOps' = nOps + 1

(***************************************************************************)
(* sofs_ifuncs_1: soFreeDataCluster.c, soAllocDataCluster.c                *)
(***************************************************************************)
\* a call of one of the functions of sofs_ifuncs_1 .. sofs_ifuncs_3: Invoke(f, st, a)
\* is f applied to the machine state st and the arguments a
RECURSIVE Invoke(_, _, _)

RECURSIVE DepleteLink(_, _)
\* the for loop of soDeplete that links the cached clusters to one another
DepleteLink(st, cPos) ==
  With([ins \in {st.sb.dZoneInsert} |->
  IF cPos >= ins.cacheIdx THEN Ret(st, 0)
  ELSE With([r \in {soReadCacheCluster(st, Phys(ins.cache[cPos]))} |->
       IF r.rc # 0 THEN r
       ELSE With([dclust \in {[r.buf EXCEPT
                             !.prev = IF cPos = 0 THEN st.sb.dTail
                                      ELSE ins.cache[cPos - 1],
                             !.next = IF cPos # ins.cacheIdx - 1
                                      THEN ins.cache[cPos + 1]
                                      ELSE NULL_CLUSTER]} |->
       With([w \in {soWriteCacheCluster(r, Phys(ins.cache[cPos]), dclust)} |->
       IF w.rc # 0 THEN w ELSE DepleteLink(w, cPos + 1)])])])])

\* soDeplete without the loop that empties the insertion cache
soDeplete_keepInsert(st) ==
  With([ins \in {st.sb.dZoneInsert} |->
  With([a \in {IF st.sb.dTail # NULL_CLUSTER
           THEN With([r \in {soReadCacheCluster(st, Phys(st.sb.dTail))} |->
                IF r.rc # 0 THEN r
                ELSE soWriteCacheCluster(r, Phys(st.sb.dTail),
                                         [r.buf EXCEPT !.next = ins.cache[0]])])
           ELSE Ret(st, 0)} |->
  IF a.rc # 0 THEN a
     ELSE With([b \in {DepleteLink(a, 0)} |->
          IF b.rc # 0 THEN b
          ELSE [b EXCEPT
                 \* cache[-1] is the word before the array: cacheIdx itself
                 !.sb.dTail = IF ins.cacheIdx = 0 THEN ins.cacheIdx
                              ELSE ins.cache[ins.cacheIdx - 1],
                 !.sb.dHead = IF @ = NULL_CLUSTER THEN ins.cache[0] ELSE @,
                 !.rc = 0]])])])

soDeplete(st) ==
  With([ins \in {st.sb.dZoneInsert} |->
  With([a \in {IF st.sb.dTail # NULL_CLUSTER
           THEN With([r \in {soReadCacheCluster(st, Phys(st.sb.dTail))} |->
                IF r.rc # 0 THEN r
                ELSE soWriteCacheCluster(r, Phys(st.sb.dTail),
                                         [r.buf EXCEPT !.next = ins.cache[0]])])
           ELSE Ret(st, 0)} |->
  IF a.rc # 0 THEN a
     ELSE With([b \in {DepleteLink(a, 0)} |->
          IF b.rc # 0 THEN b
          ELSE [b EXCEPT
                 \* cache[-1] is the word before the array: cacheIdx itself
                 !.sb.dTail = IF ins.cacheIdx = 0 THEN ins.cacheIdx
                              ELSE ins.cache[ins.cacheIdx - 1],
                 !.sb.dHead = IF @ = NULL_CLUSTER THEN ins.cache[0] ELSE @,
                 !.sb.dZoneInsert =
                    [cacheIdx |-> 0,
                     cache |-> [i \in CacheIdx |->
                                  IF i < ins.cacheIdx THEN NULL_CLUSTER
                                  ELSE ins.cache[i]]],
                 !.rc = 0]])])])

\* soFreeDataCluster without the increment of dZoneFree
soFreeDataCluster_noCount(st, nClust) ==
  With([a \in {soLoadSuperBlock(st)} |->
  IF a.rc # 0 THEN a
  ELSE IF nClust <= 0 \/ nClust >= dZoneTotal THEN Ret(a, -EINVAL)
  ELSE With([q \in {soQCheckStatDC(a, nClust)} |->
  IF q.rc # 0 THEN q
  ELSE IF q.pstat = FREE_CLT THEN Ret(q, -EDCNALINVAL)
  ELSE With([r \in {soReadCacheCluster(q, Phys(nClust))} |->
  IF r.rc # 0 THEN r
  ELSE With([w \in {soWriteCacheCluster(r, Phys(nClust),
                   [r.buf EXCEPT !.prev = NULL_CLUSTER, !.next = NULL_CLUSTER])} |->
  IF w.rc # 0 THEN w
  ELSE With([d \in {IF w.sb.dZoneInsert.cacheIdx = DZONE_CACHE_SIZE
                THEN Invoke("soDeplete", w, <<>>) ELSE Ret(w, 0)} |->
  IF d.rc # 0 THEN d
  ELSE With([idx \in {d.sb.dZoneInsert.cacheIdx} |->
  With([e \in {[d EXCEPT !.sb.dZoneInsert.cache[idx] = nClust,
                          !.sb.dZoneInsert.cacheIdx = idx + 1]} |->
  \* error is 0 here and is compared with, not assigned, the result
  With([s \in {soStoreSuperBlock(e)} |->
  IF (IF 0 = s.rc THEN 1 ELSE 0) # 0 THEN Ret(s, 0) ELSE Ret(s, 0)])])])])])])])])

soFreeDataCluster(st, nClust) ==
  With([a \in {soLoadSuperBlock(st)} |->
  IF a.rc # 0 THEN a
  ELSE IF nClust <= 0 \/ nClust >= dZoneTotal THEN Ret(a, -EINVAL)
  ELSE With([q \in {soQCheckStatDC(a, nClust)} |->
  IF q.rc # 0 THEN q
  ELSE IF q.pstat = FREE_CLT THEN Ret(q, -EDCNALINVAL)
  ELSE With([r \in {soReadCacheCluster(q, Phys(nClust))} |->
  IF r.rc # 0 THEN r
  ELSE With([w \in {soWriteCacheCluster(r, Phys(nClust),
                   [r.buf EXCEPT !.prev = NULL_CLUSTER, !.next = NULL_CLUSTER])} |->
  IF w.rc # 0 THEN w
  ELSE With([d \in {IF w.sb.dZoneInsert.cacheIdx = DZONE_CACHE_SIZE
                THEN Invoke("soDeplete", w, <<>>) ELSE Ret(w, 0)} |->
  IF d.rc # 0 THEN d
  ELSE With([idx \in {d.sb.dZoneInsert.cacheIdx} |->
  With([e \in {[d EXCEPT !.sb.dZoneInsert.cache[idx] = nClust,
                          !.sb.dZoneInsert.cacheIdx = idx + 1,
                          !.sb.dZoneFree = (@ + 1) % U32]} |->
  \* error is 0 here and is compared with, not assigned, the result
  With([s \in {soStoreSuperBlock(e)} |->
  IF (IF 0 = s.rc THEN 1 ELSE 0) # 0 THEN Ret(s, 0) ELSE Ret(s, 0)])])])])])])])])

RECURSIVE ReplenishLoop(_, _, _, _)
\* the two for loops of soReplenish: r is [st, n, nLCluster]; the first loop
\* (stopAtNull) breaks when the repository is exhausted
ReplenishLoop(st, n, nLCluster, stopAtNull) ==
  IF n >= DZONE_CACHE_SIZE THEN [st |-> Ret(st, 0), n |-> n, nLCluster |-> nLCluster]
  ELSE IF stopAtNull /\ nLCluster = NULL_CLUSTER
       THEN [st |-> Ret(st, 0), n |-> n, nLCluster |-> nLCluster]
  ELSE With([a \in {[st EXCEPT !.sb.dZoneRetriev.cache[n] = nLCluster]} |->
  With([r \in {soReadCacheCluster(a, Phys(nLCluster))} |->
  IF r.rc # 0 THEN [st |-> r, n |-> n, nLCluster |-> nLCluster]
          ELSE With([w \in {soWriteCacheCluster(r, Phys(nLCluster),
                           [r.buf EXCEPT !.prev = NULL_CLUSTER,
                                         !.next = NULL_CLUSTER])} |->
          IF w.rc # 0 THEN [st |-> w, n |-> n, nLCluster |-> nLCluster]
                  ELSE ReplenishLoop(w, n + 1, r.buf.next, stopAtNull)])])])

soReplenish(st) ==
  With([nctt \in {IF st.sb.dZoneFree < DZONE_CACHE_SIZE THEN st.sb.dZoneFree
              ELSE DZONE_CACHE_SIZE} |->
  With([l1 \in {ReplenishLoop(st, DZONE_CACHE_SIZE - nctt, st.sb.dHead, TRUE)} |->
  IF l1.st.rc # 0 THEN l1.st
     ELSE With([l2 \in {IF l1.n # DZONE_CACHE_SIZE
                THEN With([d \in {Invoke("soDeplete", [l1.st EXCEPT !.sb.dHead = NULL_CLUSTER,
                                                      !.sb.dTail = NULL_CLUSTER], <<>>)} |->
                IF d.rc # 0 THEN [st |-> d, n |-> l1.n, nLCluster |-> 0]
                        ELSE ReplenishLoop(d, l1.n, d.sb.dHead, FALSE)])
                ELSE l1} |->
     IF l2.st.rc # 0 THEN l2.st
             ELSE With([h \in {IF l2.nLCluster = NULL_CLUSTER
                           THEN [l2.st EXCEPT !.sb.dTail = NULL_CLUSTER,
                                              !.sb.dHead = NULL_CLUSTER]
                           ELSE [l2.st EXCEPT !.sb.dHead = l2.nLCluster]} |->
             With([p \in {IF l2.nLCluster # NULL_CLUSTER
                           THEN With([r \in {soReadCacheCluster(h, Phys(h.sb.dHead))} |->
                                IF r.rc # 0 THEN r
                                ELSE soWriteCacheCluster(r, Phys(h.sb.dHead),
                                       [r.buf EXCEPT !.prev = NULL_CLUSTER])])
                           ELSE Ret(h, 0)} |->
             IF p.rc # 0 THEN p
                     ELSE [p EXCEPT !.sb.dZoneRetriev.cacheIdx =
                                       DZONE_CACHE_SIZE - nctt,
                                    !.rc = 0]])])])])])

\* soAllocDataCluster assigning the root directory's inode number, not nInode,
\* to the stat field
soAllocDataCluster_statRoot(st, nInode) ==
  With([a \in {soLoadSuperBlock(st)} |->
  IF a.rc # 0 THEN a
  ELSE IF soQCheckDZ(a) # 0 THEN Ret(a, soQCheckDZ(a))
  ELSE IF a.sb.dZoneFree = 0 THEN Ret(a, -ENOSPC)
  ELSE With([b \in {soConvertRefInT(a, nInode)} |->
  IF b.rc # 0 THEN b
  ELSE With([c \in {soLoadBlockInT(b, b.cnv[1])} |->
  IF c.rc # 0 THEN c
  ELSE IF soQCheckFInode(c.inode[b.cnv[2]]) = 0 THEN Ret(c, -EIUININVAL)
  ELSE With([d \in {IF c.sb.dZoneRetriev.cacheIdx = DZONE_CACHE_SIZE
                THEN Invoke("soReplenish", c, <<>>) ELSE Ret(c, 0)} |->
  IF d.rc # 0 THEN d
  ELSE With([idx \in {d.sb.dZoneRetriev.cacheIdx} |->
  With([nClust \in {d.sb.dZoneRetriev.cache[idx]} |->
  With([e \in {[d EXCEPT !.sb.dZoneRetriev.cache[idx] = NULL_CLUSTER,
                          !.sb.dZoneRetriev.cacheIdx = idx + 1,
                          !.sb.dZoneFree = @ - 1,
                          !.nClust = nClust]} |->
  With([r \in {soReadCacheCluster(e, Phys(nClust))} |->
  IF r.rc # 0 THEN r
  ELSE With([g \in {IF r.buf.stat # NULL_INODE
                THEN Invoke("soCleanDataCluster", r, <<r.buf.stat, nClust>>) ELSE Ret(r, 0)} |->
  IF g.rc # 0 THEN [g EXCEPT !.nClust = nClust]
  ELSE With([w \in {soWriteCacheCluster(g, Phys(nClust),
                   [r.buf EXCEPT !.prev = NULL_CLUSTER, !.next = NULL_CLUSTER,
                                 !.stat = 0])} |->
  IF w.rc # 0 THEN w
  ELSE soStoreSuperBlock(w)])])])])])])])])])])

\* *p_nClust is returned in nClust
soAllocDataCluster(st, nInode) ==
  With([a \in {soLoadSuperBlock(st)} |->
  IF a.rc # 0 THEN a
  ELSE IF soQCheckDZ(a) # 0 THEN Ret(a, soQCheckDZ(a))
  ELSE IF a.sb.dZoneFree = 0 THEN Ret(a, -ENOSPC)
  ELSE With([b \in {soConvertRefInT(a, nInode)} |->
  IF b.rc # 0 THEN b
  ELSE With([c \in {soLoadBlockInT(b, b.cnv[1])} |->
  IF c.rc # 0 THEN c
  ELSE IF soQCheckFInode(c.inode[b.cnv[2]]) = 0 THEN Ret(c, -EIUININVAL)
  ELSE With([d \in {IF c.sb.dZoneRetriev.cacheIdx = DZONE_CACHE_SIZE
                THEN Invoke("soReplenish", c, <<>>) ELSE Ret(c, 0)} |->
  IF d.rc # 0 THEN d
  ELSE With([idx \in {d.sb.dZoneRetriev.cacheIdx} |->
  With([nClust \in {d.sb.dZoneRetriev.cache[idx]} |->
  With([e \in {[d EXCEPT !.sb.dZoneRetriev.cache[idx] = NULL_CLUSTER,
                          !.sb.dZoneRetriev.cacheIdx = idx + 1,
                          !.sb.dZoneFree = @ - 1,
                          !.nClust = nClust]} |->
  With([r \in {soReadCacheCluster(e, Phys(nClust))} |->
  IF r.rc # 0 THEN r
  ELSE With([g \in {IF r.buf.stat # NULL_INODE
                THEN Invoke("soCleanDataCluster", r, <<r.buf.stat, nClust>>) ELSE Ret(r, 0)} |->
  IF g.rc # 0 THEN [g EXCEPT !.nClust = nClust]
  ELSE With([w \in {soWriteCacheCluster(g, Phys(nClust),
                   [r.buf EXCEPT !.prev = NULL_CLUSTER, !.next = NULL_CLUSTER,
                                 !.stat = nInode])} |->
  IF w.rc # 0 THEN w
  ELSE soStoreSuperBlock(w)])])])])])])])])])])

(***************************************************************************)
(* sofs_ifuncs_2: soReadInode.c, soWriteInode.c                            *)
(***************************************************************************)
\* soReadInode that leaves the time of last access as it is
soReadInode_noATime(st, p_inode, nInode, status) ==
  IF status # IUIN /\ status # FDIN THEN Ret(st, -EINVAL)
  ELSE With([a \in {soLoadSuperBlock(st)} |->
  IF a.rc # 0 THEN a
  ELSE IF soQCheckSuperBlock(a) # 0 THEN Ret(a, soQCheckSuperBlock(a))
  ELSE IF soQCheckInT(a) # 0 THEN Ret(a, soQCheckInT(a))
  ELSE IF nInode >= iTotal THEN Ret(a, -EINVAL)
  ELSE With([b \in {soConvertRefInT(a, nInode)} |->
  IF b.rc # 0 THEN b
  ELSE With([c \in {soLoadBlockInT(b, b.cnv[1])} |->
  IF c.rc # 0 THEN c
  ELSE With([offset \in {b.cnv[2]} |->
  With([chk \in {IF status = IUIN THEN soQCheckInodeIU(c, c.inode[offset])
                  ELSE soQCheckFDInode(c, c.inode[offset])} |->
  IF chk # 0 THEN Ret(c, chk)
  ELSE With([d \in {IF status = IUIN
                THEN c ELSE c} |->
  With([e \in {IF p_inode = "slot" THEN [d EXCEPT !.inode[0] = d.inode[offset]]
                ELSE [d EXCEPT !.ino = d.inode[offset]]} |->
  With([f \in {soStoreBlockInT(e)} |->
  IF f.rc # 0 THEN f ELSE soStoreSuperBlock(f)])])])])])])])])

\* p_inode tells where the caller's buffer is: "local" for a variable of the
\* caller (returned in ino), "slot" for the resident inode-table block itself
soReadInode(st, p_inode, nInode, status) ==
  IF status # IUIN /\ status # FDIN THEN Ret(st, -EINVAL)
  ELSE With([a \in {soLoadSuperBlock(st)} |->
  IF a.rc # 0 THEN a
  ELSE IF soQCheckSuperBlock(a) # 0 THEN Ret(a, soQCheckSuperBlock(a))
  ELSE IF soQCheckInT(a) # 0 THEN Ret(a, soQCheckInT(a))
  ELSE IF nInode >= iTotal THEN Ret(a, -EINVAL)
  ELSE With([b \in {soConvertRefInT(a, nInode)} |->
  IF b.rc # 0 THEN b
  ELSE With([c \in {soLoadBlockInT(b, b.cnv[1])} |->
  IF c.rc # 0 THEN c
  ELSE With([offset \in {b.cnv[2]} |->
  With([chk \in {IF status = IUIN THEN soQCheckInodeIU(c, c.inode[offset])
                  ELSE soQCheckFDInode(c, c.inode[offset])} |->
  IF chk # 0 THEN Ret(c, chk)
  ELSE With([d \in {IF status = IUIN
                THEN [c EXCEPT !.inode[offset].vD1 = Now(c)] ELSE c} |->
  With([e \in {IF p_inode = "slot" THEN [d EXCEPT !.inode[0] = d.inode[offset]]
                ELSE [d EXCEPT !.ino = d.inode[offset]]} |->
  With([f \in {soStoreBlockInT(e)} |->
  IF f.rc # 0 THEN f ELSE soStoreSuperBlock(f)])])])])])])])])

\* the caller's *p_inode, whose times the function updates, is returned in ino
soWriteInode(st, p_inode, nInode, status) ==
  With([a \in {soLoadSuperBlock(st)} |->
  IF a.rc # 0 THEN a
  ELSE IF soQCheckSuperBlock(a) # 0 THEN Ret(a, soQCheckSuperBlock(a))
  ELSE IF nInode > iTotal \/ (status # IUIN /\ status # FDIN) THEN Ret(a, -EINVAL)
  ELSE With([b \in {soConvertRefInT(a, nInode)} |->
  IF b.rc # 0 THEN b
  ELSE With([c \in {soLoadBlockInT(b, b.cnv[1])} |->
  IF c.rc # 0 THEN c
  ELSE With([chk \in {IF status = IUIN THEN soQCheckInodeIU(c, p_inode)
                  ELSE soQCheckFDInode(c, p_inode)} |->
  IF chk # 0 THEN Ret(c, chk)
  ELSE With([i \in {IF status = IUIN
                THEN [p_inode EXCEPT !.vD1 = Now(c), !.vD2 = Now(c)]
                ELSE p_inode} |->
  soStoreBlockInT([c EXCEPT !.inode[b.cnv[2]] = i, !.ino = i])])])])])])

(***************************************************************************)
(* sofs_ifuncs_3: soHandleFileCluster.c                                    *)
(***************************************************************************)
soCleanLogicalCluster(st, nInode, nLClust) ==
  With([r \in {soReadCacheCluster(st, Phys(nLClust))} |->
  IF r.rc # 0 THEN r
  ELSE IF r.buf.stat # nInode THEN Ret(r, -EWGINODENB)
  ELSE soWriteCacheCluster(r, Phys(nLClust), [r.buf EXCEPT !.stat = NULL_INODE])])

\* the lookup of a neighbour (idx_prev or idx_next) and the read of its cluster.
\* Result: [st, stop, idx, dc] where stop tells that the function returns st.rc
\* at once; a failed lookup makes it return 0
AttachNeighbour(st, nInode, ind) ==
  With([g \in {Invoke("soHandleFileCluster", st, <<nInode, ind, GET>>)} |->
  With([h \in {[g EXCEPT !.out = st.out]} |->
  IF g.rc # 0 THEN [st |-> Ret(h, 0), stop |-> TRUE, idx |-> 0, dc |-> ZeroClust]
  ELSE IF g.out # NULL_CLUSTER
       THEN With([r \in {soReadCacheCluster(h, Phys(g.out))} |->
            [st |-> r, stop |-> r.rc # 0, idx |-> g.out, dc |-> r.buf]])
       ELSE [st |-> h, stop |-> FALSE, idx |-> g.out, dc |-> ZeroClust]])])

soAttachLogicalCluster(st, nInode, clustInd, nLClust) ==
  With([p \in {IF clustInd = 0
           THEN [st |-> st, stop |-> FALSE, idx |-> NULL_CLUSTER, dc |-> ZeroClust]
           ELSE AttachNeighbour(st, nInode, clustInd - 1)} |->
  IF p.stop THEN p.st
  ELSE With([n \in {IF clustInd = MAX_FILE_CLUSTERS
                THEN [st |-> p.st, stop |-> FALSE, idx |-> NULL_CLUSTER,
                      dc |-> ZeroClust]
                ELSE AttachNeighbour(p.st, nInode, clustInd + 1)} |->
  IF n.stop THEN n.st
  ELSE IF p.idx = NULL_CLUSTER /\ n.idx = NULL_CLUSTER THEN Ret(n.st, 0)
  ELSE With([r \in {soReadCacheCluster(n.st, Phys(nLClust))} |->
  IF r.rc # 0 THEN r
  ELSE With([dc \in {[r.buf EXCEPT
                    !.prev = IF p.idx # NULL_CLUSTER THEN p.idx ELSE @,
                    !.next = IF n.idx # NULL_CLUSTER THEN n.idx ELSE @]} |->
  With([w1 \in {IF p.idx # NULL_CLUSTER
                 THEN soWriteCacheCluster(r, Phys(p.idx),
                                          [p.dc EXCEPT !.next = nLClust])
                 ELSE Ret(r, 0)} |->
  IF w1.rc # 0 THEN w1
  ELSE With([w2 \in {IF n.idx # NULL_CLUSTER
                 THEN soWriteCacheCluster(w1, Phys(n.idx),
                                          [n.dc EXCEPT !.prev = nLClust])
                 ELSE Ret(w1, 0)} |->
  IF w2.rc # 0 THEN w2 ELSE soWriteCacheCluster(w2, Phys(nLClust), dc)])])])])])])

\* soHandleDirect with FREE returning success without freeing the cluster
soHandleDirect_noFree(st, nInode, p_inode, clustInd, op) ==
  With([NLClt \in {p_inode.d[clustInd]} |->
  With([s0 \in {[st EXCEPT !.ino = p_inode]} |->
  IF op > 4 THEN Ret(s0, -EINVAL)
  ELSE IF op = GET THEN [s0 EXCEPT !.out = NLClt, !.rc = 0]
  ELSE IF op = ALLOC
  THEN IF NLClt # NULL_CLUSTER THEN Ret(s0, -EDCARDYIL)
       ELSE With([a \in {[Invoke("soAllocDataCluster", s0, <<nInode>>) EXCEPT !.ino = p_inode]} |->
       IF a.rc # 0 THEN a
       ELSE With([b \in {[Invoke("soAttachLogicalCluster", a, <<nInode, clustInd, a.nClust>>)
                        EXCEPT !.ino = p_inode]} |->
       IF b.rc # 0 THEN b
       ELSE [b EXCEPT !.ino.d[clustInd] = a.nClust,
                      !.ino.cluCount = (@ + 1) % U32,
                      !.out = a.nClust, !.rc = 0]])])
  ELSE IF NLClt = NULL_CLUSTER THEN Ret(s0, -EDCNOTIL)
  ELSE With([f \in {IF op = FREE_CLEAN THEN Invoke("soFreeDataCluster", s0, <<NLClt>>) ELSE Ret(s0, 0)} |->
       IF f.rc # 0 THEN f
       ELSE IF op = FREE THEN Ret(f, 0)
       ELSE With([c \in {Invoke("soCleanLogicalCluster", f, <<nInode, NLClt>>)} |->
            IF c.rc # 0 THEN c
            ELSE [c EXCEPT !.ino.cluCount = (@ - 1) % U32,
                           !.ino.d[clustInd] = NULL_CLUSTER,
                           !.rc = 0]])])])])

\* soHandleDirect freeing the cluster under CLEAN as well
soHandleDirect_cleanFrees(st, nInode, p_inode, clustInd, op) ==
  With([NLClt \in {p_inode.d[clustInd]} |->
  With([s0 \in {[st EXCEPT !.ino = p_inode]} |->
  IF op > 4 THEN Ret(s0, -EINVAL)
  ELSE IF op = GET THEN [s0 EXCEPT !.out = NLClt, !.rc = 0]
  ELSE IF op = ALLOC
  THEN IF NLClt # NULL_CLUSTER THEN Ret(s0, -EDCARDYIL)
       ELSE With([a \in {[Invoke("soAllocDataCluster", s0, <<nInode>>) EXCEPT !.ino = p_inode]} |->
       IF a.rc # 0 THEN a
       ELSE With([b \in {[Invoke("soAttachLogicalCluster", a, <<nInode, clustInd, a.nClust>>)
                        EXCEPT !.ino = p_inode]} |->
       IF b.rc # 0 THEN b
       ELSE [b EXCEPT !.ino.d[clustInd] = a.nClust,
                      !.ino.cluCount = (@ + 1) % U32,
                      !.out = a.nClust, !.rc = 0]])])
  ELSE IF NLClt = NULL_CLUSTER THEN Ret(s0, -EDCNOTIL)
  ELSE With([f \in {Invoke("soFreeDataCluster", s0, <<NLClt>>)} |->
       IF f.rc # 0 THEN f
       ELSE IF op = FREE THEN Ret(f, 0)
       ELSE With([c \in {Invoke("soCleanLogicalCluster", f, <<nInode, NLClt>>)} |->
            IF c.rc # 0 THEN c
            ELSE [c EXCEPT !.ino.cluCount = (@ - 1) % U32,
                           !.ino.d[clustInd] = NULL_CLUSTER,
                           !.rc = 0]])])])])

\* *p_inode is returned in ino, *p_outVal in out
soHandleDirect(st, nInode, p_inode, clustInd, op) ==
  With([NLClt \in {p_inode.d[clustInd]} |->
  With([s0 \in {[st EXCEPT !.ino = p_inode]} |->
  IF op > 4 THEN Ret(s0, -EINVAL)
  ELSE IF op = GET THEN [s0 EXCEPT !.out = NLClt, !.rc = 0]
  ELSE IF op = ALLOC
  THEN IF NLClt # NULL_CLUSTER THEN Ret(s0, -EDCARDYIL)
       ELSE With([a \in {[Invoke("soAllocDataCluster", s0, <<nInode>>) EXCEPT !.ino = p_inode]} |->
       IF a.rc # 0 THEN a
       ELSE With([b \in {[Invoke("soAttachLogicalCluster", a, <<nInode, clustInd, a.nClust>>)
                        EXCEPT !.ino = p_inode]} |->
       IF b.rc # 0 THEN b
       ELSE [b EXCEPT !.ino.d[clustInd] = a.nClust,
                      !.ino.cluCount = (@ + 1) % U32,
                      !.out = a.nClust, !.rc = 0]])])
  ELSE IF NLClt = NULL_CLUSTER THEN Ret(s0, -EDCNOTIL)
  ELSE With([f \in {IF op # CLEAN THEN Invoke("soFreeDataCluster", s0, <<NLClt>>) ELSE Ret(s0, 0)} |->
       IF f.rc # 0 THEN f
       ELSE IF op = FREE THEN Ret(f, 0)
       ELSE With([c \in {Invoke("soCleanLogicalCluster", f, <<nInode, NLClt>>)} |->
            IF c.rc # 0 THEN c
            ELSE [c EXCEPT !.ino.cluCount = (@ - 1) % U32,
                           !.ino.d[clustInd] = NULL_CLUSTER,
                           !.rc = 0]])])])])

AllNull(ref) == \A k \in RefIdx : ref[k] = NULL_CLUSTER

\* soHandleSIndirect with GET answering the first reference of the i1 cluster whatever the position
soHandleSIndirect_firstRef(st, nInode, p_inode, clustInd, op) ==
  With([ref_offset \in {clustInd - N_DIRECT} |->
  With([s0 \in {[st EXCEPT !.ino = p_inode]} |->
  IF op > 4 THEN Ret(s0, -EINVAL)
  ELSE IF op = GET
  THEN IF p_inode.i1 = NULL_CLUSTER THEN [s0 EXCEPT !.out = NULL_CLUSTER, !.rc = 0]
       ELSE With([l \in {soLoadDirRefClust(s0, Phys(p_inode.i1))} |->
            IF l.rc # 0 THEN l ELSE [l EXCEPT !.out = l.dirRefClust.ref[0]]])
  ELSE IF op = ALLOC
  THEN With([a \in {IF p_inode.i1 = NULL_CLUSTER
                THEN With([x \in {Invoke("soAllocDataCluster", s0, <<nInode>>)} |->
                     IF x.rc # 0 THEN x
                     ELSE With([l \in {soLoadDirRefClust(x, Phys(x.nClust))} |->
                     IF l.rc # 0 THEN l
                     ELSE [soStoreDirRefClust([l EXCEPT !.dirRefClust.ref = NullRefs])
                             EXCEPT !.ino = [p_inode EXCEPT
                                               !.i1 = x.nClust,
                                               !.cluCount = (@ + 1) % U32]]])])
                ELSE Ret(s0, 0)} |->
       IF a.rc # 0 THEN a
       ELSE With([b \in {soLoadDirRefClust(a, Phys(a.ino.i1))} |->
       IF b.rc # 0 THEN b
       ELSE IF b.dirRefClust.ref[ref_offset] # NULL_CLUSTER THEN Ret(b, -EDCARDYIL)
       ELSE With([c \in {[Invoke("soAllocDataCluster", b, <<nInode>>) EXCEPT !.ino = a.ino]} |->
       IF c.rc # 0 THEN c
       ELSE With([d \in {soLoadDirRefClust(c, Phys(a.ino.i1))} |->
       IF d.rc # 0 THEN d
       ELSE With([e \in {[d EXCEPT !.dirRefClust.ref[ref_offset] = c.nClust,
                               !.out = c.nClust]} |->
       With([f \in {Invoke("soAttachLogicalCluster", e, <<nInode, clustInd, e.dirRefClust.ref[ref_offset]>>)} |->
       IF f.rc # 0 THEN f
       ELSE [soStoreDirRefClust(f)
               EXCEPT !.ino = [a.ino EXCEPT !.cluCount = (@ + 1) % U32]]])])])])])])
  ELSE IF p_inode.i1 = NULL_CLUSTER THEN Ret(s0, -EDCNOTIL)
  ELSE With([l \in {soLoadDirRefClust(s0, Phys(p_inode.i1))} |->
  IF l.rc # 0 THEN l
  ELSE IF l.dirRefClust.ref[ref_offset] = NULL_CLUSTER THEN Ret(l, -EDCNOTIL)
  ELSE IF l.dirRefClust.stat # nInode THEN Ret(l, -EWGINODENB)
  ELSE With([f \in {IF op # CLEAN
                THEN Invoke("soFreeDataCluster", l, <<l.dirRefClust.ref[ref_offset]>>)
                ELSE Ret(l, 0)} |->
  IF f.rc # 0 THEN f
  ELSE IF op = FREE THEN Ret(f, 0)
  ELSE With([c \in {Invoke("soCleanLogicalCluster", f, <<nInode, f.dirRefClust.ref[ref_offset]>>)} |->
  IF c.rc # 0 THEN c
  ELSE With([d \in {[c EXCEPT !.dirRefClust.ref[ref_offset] = NULL_CLUSTER]} |->
  With([ino1 \in {[p_inode EXCEPT !.cluCount = (@ - 1) % U32]} |->
  With([s \in {soStoreDirRefClust(d)} |->
  IF ~AllNull(d.dirRefClust.ref) THEN [s EXCEPT !.ino = ino1]
  ELSE IF s.rc # 0 THEN s
  ELSE With([fr \in {Invoke("soFreeDataCluster", s, <<p_inode.i1>>)} |->
  IF fr.rc # 0 THEN fr
  ELSE With([cl \in {Invoke("soCleanLogicalCluster", fr, <<nInode, p_inode.i1>>)} |->
  IF cl.rc # 0 THEN cl
  ELSE [cl EXCEPT !.ino = [ino1 EXCEPT !.cluCount = (@ - 1) % U32,
                                       !.i1 = NULL_CLUSTER],
                  !.rc = 0]])])])])])])])])])])

\* p_dc points to the resident dirRefClust: every p_dc-> access is an access
\* to the slot as it is at that moment
soHandleSIndirect(st, nInode, p_inode, clustInd, op) ==
  With([ref_offset \in {clustInd - N_DIRECT} |->
  With([s0 \in {[st EXCEPT !.ino = p_inode]} |->
  IF op > 4 THEN Ret(s0, -EINVAL)
  ELSE IF op = GET
  THEN IF p_inode.i1 = NULL_CLUSTER THEN [s0 EXCEPT !.out = NULL_CLUSTER, !.rc = 0]
       ELSE With([l \in {soLoadDirRefClust(s0, Phys(p_inode.i1))} |->
            IF l.rc # 0 THEN l ELSE [l EXCEPT !.out = l.dirRefClust.ref[ref_offset]]])
  ELSE IF op = ALLOC
  THEN With([a \in {IF p_inode.i1 = NULL_CLUSTER
                THEN With([x \in {Invoke("soAllocDataCluster", s0, <<nInode>>)} |->
                     IF x.rc # 0 THEN x
                     ELSE With([l \in {soLoadDirRefClust(x, Phys(x.nClust))} |->
                     IF l.rc # 0 THEN l
                     ELSE [soStoreDirRefClust([l EXCEPT !.dirRefClust.ref = NullRefs])
                             EXCEPT !.ino = [p_inode EXCEPT
                                               !.i1 = x.nClust,
                                               !.cluCount = (@ + 1) % U32]]])])
                ELSE Ret(s0, 0)} |->
       IF a.rc # 0 THEN a
       ELSE With([b \in {soLoadDirRefClust(a, Phys(a.ino.i1))} |->
       IF b.rc # 0 THEN b
       ELSE IF b.dirRefClust.ref[ref_offset] # NULL_CLUSTER THEN Ret(b, -EDCARDYIL)
       ELSE With([c \in {[Invoke("soAllocDataCluster", b, <<nInode>>) EXCEPT !.ino = a.ino]} |->
       IF c.rc # 0 THEN c
       ELSE With([d \in {soLoadDirRefClust(c, Phys(a.ino.i1))} |->
       IF d.rc # 0 THEN d
       ELSE With([e \in {[d EXCEPT !.dirRefClust.ref[ref_offset] = c.nClust,
                               !.out = c.nClust]} |->
       With([f \in {Invoke("soAttachLogicalCluster", e, <<nInode, clustInd, e.dirRefClust.ref[ref_offset]>>)} |->
       IF f.rc # 0 THEN f
       ELSE [soStoreDirRefClust(f)
               EXCEPT !.ino = [a.ino EXCEPT !.cluCount = (@ + 1) % U32]]])])])])])])
  ELSE IF p_inode.i1 = NULL_CLUSTER THEN Ret(s0, -EDCNOTIL)
  ELSE With([l \in {soLoadDirRefClust(s0, Phys(p_inode.i1))} |->
  IF l.rc # 0 THEN l
  ELSE IF l.dirRefClust.ref[ref_offset] = NULL_CLUSTER THEN Ret(l, -EDCNOTIL)
  ELSE IF l.dirRefClust.stat # nInode THEN Ret(l, -EWGINODENB)
  ELSE With([f \in {IF op # CLEAN
                THEN Invoke("soFreeDataCluster", l, <<l.dirRefClust.ref[ref_offset]>>)
                ELSE Ret(l, 0)} |->
  IF f.rc # 0 THEN f
  ELSE IF op = FREE THEN Ret(f, 0)
  ELSE With([c \in {Invoke("soCleanLogicalCluster", f, <<nInode, f.dirRefClust.ref[ref_offset]>>)} |->
  IF c.rc # 0 THEN c
  ELSE With([d \in {[c EXCEPT !.dirRefClust.ref[ref_offset] = NULL_CLUSTER]} |->
  With([ino1 \in {[p_inode EXCEPT !.cluCount = (@ - 1) % U32]} |->
  With([s \in {soStoreDirRefClust(d)} |->
  IF ~AllNull(d.dirRefClust.ref) THEN [s EXCEPT !.ino = ino1]
  ELSE IF s.rc # 0 THEN s
  ELSE With([fr \in {Invoke("soFreeDataCluster", s, <<p_inode.i1>>)} |->
  IF fr.rc # 0 THEN fr
  ELSE With([cl \in {Invoke("soCleanLogicalCluster", fr, <<nInode, p_inode.i1>>)} |->
  IF cl.rc # 0 THEN cl
  ELSE [cl EXCEPT !.ino = [ino1 EXCEPT !.cluCount = (@ - 1) % U32,
                                       !.i1 = NULL_CLUSTER],
                  !.rc = 0]])])])])])])])])])])

\* soHandleDIndirect dissociating an emptied cluster of single indirect references without freeing it
soHandleDIndirect_keepChild(st, nInode, p_inode, clustInd, op) ==
  With([ref_Soffset \in {(clustInd - N_DIRECT - RPC) \div RPC} |->
  With([ref_Doffset \in {(clustInd - N_DIRECT - RPC) % RPC} |->
  With([s0 \in {[st EXCEPT !.ino = p_inode]} |->
  IF op > 4 THEN Ret(s0, -EINVAL)
  ELSE IF op = GET
  THEN IF p_inode.i2 = NULL_CLUSTER THEN [s0 EXCEPT !.out = NULL_CLUSTER, !.rc = 0]
       ELSE With([l \in {soLoadSngIndRefClust(s0, Phys(p_inode.i2))} |->
            IF l.rc # 0 THEN l
            ELSE IF l.sngIndRefClust.ref[ref_Soffset] = NULL_CLUSTER
            THEN [l EXCEPT !.out = NULL_CLUSTER]
            ELSE With([m \in {soLoadDirRefClust(l, Phys(l.sngIndRefClust.ref[ref_Soffset]))} |->
            IF m.rc # 0 THEN m
                    ELSE [m EXCEPT !.out = m.dirRefClust.ref[ref_Doffset]]])])
  ELSE IF op = ALLOC
  THEN With([a \in {IF p_inode.i2 = NULL_CLUSTER
                THEN With([x \in {Invoke("soAllocDataCluster", s0, <<nInode>>)} |->
                     IF x.rc # 0 THEN x
                     ELSE With([l \in {soLoadSngIndRefClust(x, Phys(x.nClust))} |->
                     IF l.rc # 0 THEN l
                     ELSE [soStoreSngIndRefClust(
                              [l EXCEPT !.sngIndRefClust.ref = NullRefs])
                             EXCEPT !.ino = [p_inode EXCEPT
                                               !.i2 = x.nClust,
                                               !.cluCount = (@ + 1) % U32]]])])
                ELSE Ret(s0, 0)} |->
       IF a.rc # 0 THEN a
       ELSE With([b \in {soLoadSngIndRefClust(a, Phys(a.ino.i2))} |->
       IF b.rc # 0 THEN b
       ELSE With([c \in {IF b.sngIndRefClust.ref[ref_Soffset] = NULL_CLUSTER
                     THEN With([y \in {[Invoke("soAllocDataCluster", b, <<nInode>>)
                                      EXCEPT !.ino = a.ino]} |->
                          IF y.rc # 0 THEN y
                          ELSE With([m \in {[y EXCEPT
                                           !.sngIndRefClust.ref[ref_Soffset] = y.nClust]} |->
                          With([l \in {soLoadDirRefClust(m, Phys(y.nClust))} |->
                          IF l.rc # 0 THEN l
                                  ELSE [l EXCEPT !.dirRefClust.ref = NullRefs,
                                                 !.ino.cluCount = (@ + 1) % U32]])])])
                     ELSE Ret(b, 0)} |->
       IF c.rc # 0 THEN c
       ELSE With([d \in {soLoadDirRefClust(c, Phys(c.sngIndRefClust.ref[ref_Soffset]))} |->
       IF d.rc # 0 THEN d
       ELSE IF d.dirRefClust.ref[ref_Doffset] # NULL_CLUSTER THEN Ret(d, -EDCARDYIL)
       ELSE With([z \in {[Invoke("soAllocDataCluster", d, <<nInode>>) EXCEPT !.ino = c.ino]} |->
       IF z.rc # 0 THEN z
       ELSE With([e \in {[z EXCEPT !.dirRefClust.ref[ref_Doffset] = z.nClust,
                               !.out = z.nClust]} |->
       With([f \in {Invoke("soAttachLogicalCluster", e, <<nInode, clustInd, e.dirRefClust.ref[ref_Doffset]>>)} |->
       IF f.rc # 0 THEN f
       ELSE With([g \in {soStoreDirRefClust(f)} |->
       IF g.rc # 0 THEN g
       ELSE [soStoreSngIndRefClust(g)
               EXCEPT !.ino = [c.ino EXCEPT !.cluCount = (@ + 1) % U32]]])])])])])])])])
  ELSE IF p_inode.i2 = NULL_CLUSTER THEN Ret(s0, -EDCNOTIL)
  ELSE With([l \in {soLoadSngIndRefClust(s0, Phys(p_inode.i2))} |->
  IF l.rc # 0 THEN l
  ELSE IF l.sngIndRefClust.ref[ref_Soffset] = NULL_CLUSTER THEN Ret(l, -EDCNOTIL)
  ELSE With([l2 \in {soLoadDirRefClust(l, Phys(l.sngIndRefClust.ref[ref_Soffset]))} |->
  IF l2.rc # 0 THEN l2
  ELSE IF l2.dirRefClust.ref[ref_Doffset] = NULL_CLUSTER THEN Ret(l2, -EDCNOTIL)
  ELSE With([f \in {IF op # CLEAN
                THEN Invoke("soFreeDataCluster", l2, <<l2.dirRefClust.ref[ref_Doffset]>>)
                ELSE Ret(l2, 0)} |->
  \* stat = (soFreeDataCluster(...) != 0)
  IF f.rc # 0 THEN Ret(f, 1)
  ELSE IF op = FREE THEN Ret(f, 0)
  ELSE With([c \in {Invoke("soCleanLogicalCluster", f, <<nInode, f.dirRefClust.ref[ref_Doffset]>>)} |->
  IF c.rc # 0 THEN c
  ELSE With([d \in {[c EXCEPT !.dirRefClust.ref[ref_Doffset] = NULL_CLUSTER]} |->
  With([ino1 \in {[p_inode EXCEPT !.cluCount = (@ - 1) % U32]} |->
  With([s \in {soStoreDirRefClust(d)} |->
  IF s.rc # 0 THEN s
  ELSE IF ~AllNull(d.dirRefClust.ref) THEN [soStoreSngIndRefClust(s) EXCEPT !.ino = ino1]
  ELSE With([fr \in {Ret(s, 0)} |->
  IF fr.rc # 0 THEN fr
  ELSE With([cl \in {Invoke("soCleanLogicalCluster", fr, <<nInode, fr.sngIndRefClust.ref[ref_Soffset]>>)} |->
  \* stat = (soCleanLogicalCluster(...) != 0)
  IF cl.rc # 0 THEN Ret(cl, 1)
  ELSE With([e \in {soStoreSngIndRefClust(
                  [cl EXCEPT !.sngIndRefClust.ref[ref_Soffset] = NULL_CLUSTER])} |->
  With([ino2 \in {[ino1 EXCEPT !.cluCount = (@ - 1) % U32]} |->
  IF e.rc # 0 THEN e
  ELSE IF ~AllNull(e.sngIndRefClust.ref) THEN [e EXCEPT !.ino = ino2, !.rc = 0]
  ELSE With([fr2 \in {Invoke("soFreeDataCluster", e, <<p_inode.i2>>)} |->
  IF fr2.rc # 0 THEN fr2
  ELSE With([cl2 \in {Invoke("soCleanLogicalCluster", fr2, <<nInode, p_inode.i2>>)} |->
  IF cl2.rc # 0 THEN cl2
  ELSE [cl2 EXCEPT !.ino = [ino2 EXCEPT !.i2 = NULL_CLUSTER,
                                        !.cluCount = (@ - 1) % U32],
                   !.rc = 0]])])])])])])])])])])])])])])])])

\* p_dcS and p_dcD point to the resident sngIndRefClust and dirRefClust
soHandleDIndirect(st, nInode, p_inode, clustInd, op) ==
  With([ref_Soffset \in {(clustInd - N_DIRECT - RPC) \div RPC} |->
  With([ref_Doffset \in {(clustInd - N_DIRECT - RPC) % RPC} |->
  With([s0 \in {[st EXCEPT !.ino = p_inode]} |->
  IF op > 4 THEN Ret(s0, -EINVAL)
  ELSE IF op = GET
  THEN IF p_inode.i2 = NULL_CLUSTER THEN [s0 EXCEPT !.out = NULL_CLUSTER, !.rc = 0]
       ELSE With([l \in {soLoadSngIndRefClust(s0, Phys(p_inode.i2))} |->
            IF l.rc # 0 THEN l
            ELSE IF l.sngIndRefClust.ref[ref_Soffset] = NULL_CLUSTER
            THEN [l EXCEPT !.out = NULL_CLUSTER]
            ELSE With([m \in {soLoadDirRefClust(l, Phys(l.sngIndRefClust.ref[ref_Soffset]))} |->
            IF m.rc # 0 THEN m
                    ELSE [m EXCEPT !.out = m.dirRefClust.ref[ref_Doffset]]])])
  ELSE IF op = ALLOC
  THEN With([a \in {IF p_inode.i2 = NULL_CLUSTER
                THEN With([x \in {Invoke("soAllocDataCluster", s0, <<nInode>>)} |->
                     IF x.rc # 0 THEN x
                     ELSE With([l \in {soLoadSngIndRefClust(x, Phys(x.nClust))} |->
                     IF l.rc # 0 THEN l
                     ELSE [soStoreSngIndRefClust(
                              [l EXCEPT !.sngIndRefClust.ref = NullRefs])
                             EXCEPT !.ino = [p_inode EXCEPT
                                               !.i2 = x.nClust,
                                               !.cluCount = (@ + 1) % U32]]])])
                ELSE Ret(s0, 0)} |->
       IF a.rc # 0 THEN a
       ELSE With([b \in {soLoadSngIndRefClust(a, Phys(a.ino.i2))} |->
       IF b.rc # 0 THEN b
       ELSE With([c \in {IF b.sngIndRefClust.ref[ref_Soffset] = NULL_CLUSTER
                     THEN With([y \in {[Invoke("soAllocDataCluster", b, <<nInode>>)
                                      EXCEPT !.ino = a.ino]} |->
                          IF y.rc # 0 THEN y
                          ELSE With([m \in {[y EXCEPT
                                           !.sngIndRefClust.ref[ref_Soffset] = y.nClust]} |->
                          With([l \in {soLoadDirRefClust(m, Phys(y.nClust))} |->
                          IF l.rc # 0 THEN l
                                  ELSE [l EXCEPT !.dirRefClust.ref = NullRefs,
                                                 !.ino.cluCount = (@ + 1) % U32]])])])
                     ELSE Ret(b, 0)} |->
       IF c.rc # 0 THEN c
       ELSE With([d \in {soLoadDirRefClust(c, Phys(c.sngIndRefClust.ref[ref_Soffset]))} |->
       IF d.rc # 0 THEN d
       ELSE IF d.dirRefClust.ref[ref_Doffset] # NULL_CLUSTER THEN Ret(d, -EDCARDYIL)
       ELSE With([z \in {[Invoke("soAllocDataCluster", d, <<nInode>>) EXCEPT !.ino = c.ino]} |->
       IF z.rc # 0 THEN z
       ELSE With([e \in {[z EXCEPT !.dirRefClust.ref[ref_Doffset] = z.nClust,
                               !.out = z.nClust]} |->
       With([f \in {Invoke("soAttachLogicalCluster", e, <<nInode, clustInd, e.dirRefClust.ref[ref_Doffset]>>)} |->
       IF f.rc # 0 THEN f
       ELSE With([g \in {soStoreDirRefClust(f)} |->
       IF g.rc # 0 THEN g
       ELSE [soStoreSngIndRefClust(g)
               EXCEPT !.ino = [c.ino EXCEPT !.cluCount = (@ + 1) % U32]]])])])])])])])])
  ELSE IF p_inode.i2 = NULL_CLUSTER THEN Ret(s0, -EDCNOTIL)
  ELSE With([l \in {soLoadSngIndRefClust(s0, Phys(p_inode.i2))} |->
  IF l.rc # 0 THEN l
  ELSE IF l.sngIndRefClust.ref[ref_Soffset] = NULL_CLUSTER THEN Ret(l, -EDCNOTIL)
  ELSE With([l2 \in {soLoadDirRefClust(l, Phys(l.sngIndRefClust.ref[ref_Soffset]))} |->
  IF l2.rc # 0 THEN l2
  ELSE IF l2.dirRefClust.ref[ref_Doffset] = NULL_CLUSTER THEN Ret(l2, -EDCNOTIL)
  ELSE With([f \in {IF op # CLEAN
                THEN Invoke("soFreeDataCluster", l2, <<l2.dirRefClust.ref[ref_Doffset]>>)
                ELSE Ret(l2, 0)} |->
  \* stat = (soFreeDataCluster(...) != 0)
  IF f.rc # 0 THEN Ret(f, 1)
  ELSE IF op = FREE THEN Ret(f, 0)
  ELSE With([c \in {Invoke("soCleanLogicalCluster", f, <<nInode, f.dirRefClust.ref[ref_Doffset]>>)} |->
  IF c.rc # 0 THEN c
  ELSE With([d \in {[c EXCEPT !.dirRefClust.ref[ref_Doffset] = NULL_CLUSTER]} |->
  With([ino1 \in {[p_inode EXCEPT !.cluCount = (@ - 1) % U32]} |->
  With([s \in {soStoreDirRefClust(d)} |->
  IF s.rc # 0 THEN s
  ELSE IF ~AllNull(d.dirRefClust.ref) THEN [soStoreSngIndRefClust(s) EXCEPT !.ino = ino1]
  ELSE With([fr \in {Invoke("soFreeDataCluster", s, <<s.sngIndRefClust.ref[ref_Soffset]>>)} |->
  IF fr.rc # 0 THEN fr
  ELSE With([cl \in {Invoke("soCleanLogicalCluster", fr, <<nInode, fr.sngIndRefClust.ref[ref_Soffset]>>)} |->
  \* stat = (soCleanLogicalCluster(...) != 0)
  IF cl.rc # 0 THEN Ret(cl, 1)
  ELSE With([e \in {soStoreSngIndRefClust(
                  [cl EXCEPT !.sngIndRefClust.ref[ref_Soffset] = NULL_CLUSTER])} |->
  With([ino2 \in {[ino1 EXCEPT !.cluCount = (@ - 1) % U32]} |->
  IF e.rc # 0 THEN e
  ELSE IF ~AllNull(e.sngIndRefClust.ref) THEN [e EXCEPT !.ino = ino2, !.rc = 0]
  ELSE With([fr2 \in {Invoke("soFreeDataCluster", e, <<p_inode.i2>>)} |->
  IF fr2.rc # 0 THEN fr2
  ELSE With([cl2 \in {Invoke("soCleanLogicalCluster", fr2, <<nInode, p_inode.i2>>)} |->
  IF cl2.rc # 0 THEN cl2
  ELSE [cl2 EXCEPT !.ino = [ino2 EXCEPT !.i2 = NULL_CLUSTER,
                                        !.cluCount = (@ - 1) % U32],
                   !.rc = 0]])])])])])])])])])])])])])])])])

\* *p_outVal is st.out on entry and out of the result on return
soHandleFileCluster(st, nInode, clustInd, op) ==
  With([a \in {soLoadSuperBlock(st)} |->
  IF a.rc # 0 THEN a
  ELSE IF nInode >= iTotal THEN Ret(a, -EINVAL)
  ELSE IF clustInd >= MAX_FILE_CLUSTERS THEN Ret(a, -EINVAL)
  ELSE IF op > 4 THEN Ret(a, -EINVAL)
  ELSE With([r \in {Invoke("soReadInode", a, <<"local", nInode, IF op = CLEAN THEN FDIN ELSE IUIN>>)} |->
  IF r.rc # 0 THEN r
  ELSE With([h \in {IF clustInd < N_DIRECT
                THEN Invoke("soHandleDirect", r, <<nInode, r.ino, clustInd, op>>)
                ELSE IF clustInd < N_DIRECT + RPC
                THEN Invoke("soHandleSIndirect", r, <<nInode, r.ino, clustInd, op>>)
                ELSE Invoke("soHandleDIndirect", r, <<nInode, r.ino, clustInd, op>>)} |->
  IF h.rc # 0 THEN h
  ELSE IF op = CLEAN THEN Invoke("soWriteInode", h, <<h.ino, nInode, FDIN>>)
  ELSE IF op # GET THEN Invoke("soWriteInode", h, <<h.ino, nInode, IUIN>>)
  ELSE Ret(h, 0)])])])

(***************************************************************************)
(* sofs_ifuncs_3: soCleanDataCluster.c                                     *)
(* The loops carry L = [st, count, n1, n2, done, stop]; stop tells that    *)
(* the function returns st.rc.  p_inode points to the resident inode-table *)
(* block and ref_clust to the resident sngIndRefClust.                     *)
(***************************************************************************)
Stop(L, st) == [L EXCEPT !.st = st, !.stop = TRUE]
Go(L, st) == [L EXCEPT !.st = st]

\* soStoreBlockInT, then soStoreSuperBlock
StoreInTSb(st) ==
  With([a \in {soStoreBlockInT(st)} |->
  IF a.rc # 0 THEN a ELSE soStoreSuperBlock(a)])

\* soStoreSngIndRefClust, then soStoreBlockInT, then soStoreSuperBlock
StoreSngInTSb(st) ==
  With([a \in {soStoreSngIndRefClust(st)} |->
  IF a.rc # 0 THEN a ELSE StoreInTSb(a)])

RECURSIVE CleanDirectLoop(_, _, _)
\* for(i=0;i<N_DIRECT;i++); x = [nInode, nLClust, offset, total_clust]
CleanDirectLoop(L, x, i) ==
  IF i >= N_DIRECT THEN L
  ELSE With([c \in {L.st.inode[x.offset].d[i]} |->
       IF c = NULL_CLUSTER THEN CleanDirectLoop(L, x, i + 1)
       ELSE IF c = x.nLClust
       THEN With([h \in {Invoke("soHandleFileCluster", L.st, <<x.nInode, i, FREE_CLEAN>>)} |->
            IF h.rc # 0 THEN Stop(L, h) ELSE CleanDirectLoop(Go(L, h), x, i + 1)])
       ELSE CleanDirectLoop([L EXCEPT !.count = @ + 1], x, i + 1)])

RECURSIVE CleanI1Loop(_, _, _)
\* the loop over the references of the cluster loaded for i1
CleanI1Loop(L, x, k) ==
  IF k >= RPC THEN L
  ELSE With([r \in {L.st.sngIndRefClust.ref[k]} |->
  With([a \in {IF r = NULL_CLUSTER THEN L
                ELSE IF r = x.nLClust
                THEN With([h \in {Invoke("soHandleFileCluster", L.st, <<x.nInode, N_DIRECT + k, FREE_CLEAN>>)} |->
                With([M \in {[L EXCEPT !.count = @ + 1, !.done = TRUE]} |->
                IF h.rc # 0 THEN Stop(L, h)
                        ELSE IF L.n1 THEN Stop(M, StoreSngInTSb(h))
                        ELSE Go(M, h)])])
                ELSE [L EXCEPT !.n1 = TRUE, !.count = @ + 1]} |->
  IF a.stop THEN a
          ELSE IF a.count = x.total_clust /\ a.n1
          THEN With([t \in {soStoreSngIndRefClust(a.st)} |->
               IF t.rc # 0 THEN Stop(a, t) ELSE CleanI1Loop(Go(a, t), x, k + 1)])
          ELSE CleanI1Loop(a, x, k + 1)])])

RECURSIVE CleanChildFoundLoop(_, _, _, _)
\* i2[k] is nLClust: free and clean everything the loaded cluster references
CleanChildFoundLoop(L, x, k, i) ==
  IF i >= RPC THEN L
  ELSE IF L.st.sngIndRefClust.ref[i] = NULL_CLUSTER
  THEN CleanChildFoundLoop(L, x, k, i + 1)
  ELSE With([h \in {Invoke("soHandleFileCluster", L.st, <<x.nInode, N_DIRECT + ((k + 1) * RPC) + i, FREE_CLEAN>>)} |->
       IF h.rc # 0 THEN Stop(L, h)
       ELSE CleanChildFoundLoop([L EXCEPT !.st = h, !.count = @ + 1], x, k, i + 1)])

RECURSIVE CleanChildSearchLoop(_, _, _, _)
\* i2[k] is not nLClust: look for nLClust among what the loaded cluster references
CleanChildSearchLoop(L, x, k, i) ==
  IF i >= RPC THEN L
  ELSE With([r \in {L.st.sngIndRefClust.ref[i]} |->
  With([a \in {IF r = NULL_CLUSTER THEN L
                ELSE IF r = x.nLClust
                THEN With([h \in {Invoke("soHandleFileCluster", L.st, <<x.nInode, N_DIRECT + (k + 1) * RPC + i, FREE_CLEAN>>)} |->
                IF h.rc # 0 THEN Stop(L, h)
                        ELSE IF L.n1
                        THEN Stop([L EXCEPT !.count = @ + 1], StoreSngInTSb(h))
                        ELSE [L EXCEPT !.st = h, !.count = @ + 1]])
                ELSE [L EXCEPT !.count = @ + 1, !.n1 = TRUE]} |->
  IF a.stop THEN a
          ELSE With([b \in {IF a.count = x.total_clust /\ ~a.done
                        THEN With([t \in {StoreSngInTSb(a.st)} |->
                             IF t.rc # 0 THEN Stop(a, t) ELSE Go(a, t)])
                        ELSE a} |->
          IF b.stop THEN b
                  ELSE IF b.done /\ b.n1 THEN Stop(b, StoreInTSb(b.st))
                  ELSE CleanChildSearchLoop(b, x, k, i + 1)])])])

\* soLoadSngIndRefClust(i2), trash = soFreeDataCluster(ref[k]), ref[k] = NULL_CLUSTER,
\* soStoreSngIndRefClust
CleanDropChild(L, x, k) ==
  With([l \in {soLoadSngIndRefClust(L.st, L.st.inode[x.offset].i2)} |->
  IF l.rc # 0 THEN Stop(L, l)
  ELSE With([trash \in {Invoke("soFreeDataCluster", l, <<l.sngIndRefClust.ref[k]>>)} |->
  With([t \in {soStoreSngIndRefClust(
                  [trash EXCEPT !.sngIndRefClust.ref[k] = NULL_CLUSTER])} |->
  IF t.rc # 0 THEN Stop(L, t) ELSE Go(L, t)])])])

RECURSIVE CleanI2Loop(_, _, _)
\* the loop over the references of the cluster loaded for i2
CleanI2Loop(L, x, k) ==
  IF k >= RPC THEN L
  ELSE With([r \in {L.st.sngIndRefClust.ref[k]} |->
  With([a \in {IF r = NULL_CLUSTER THEN L
                ELSE With([l \in {soLoadSngIndRefClust(L.st, r)} |->
                IF l.rc # 0 THEN Stop(L, l)
                ELSE IF r = x.nLClust
                THEN With([f \in {CleanChildFoundLoop(
                                [L EXCEPT !.st = l, !.count = @ + 1], x, k, 0)} |->
                IF f.stop THEN f
                        ELSE With([d \in {CleanDropChild(f, x, k)} |->
                             IF d.stop THEN d ELSE [d EXCEPT !.done = TRUE]])])
                ELSE With([sr \in {CleanChildSearchLoop(
                                 [L EXCEPT !.st = l, !.n1 = FALSE], x, k, 0)} |->
                IF sr.stop THEN sr
                        ELSE With([e \in {IF sr.n1 THEN [sr EXCEPT !.n2 = TRUE]
                                      ELSE With([d \in {CleanDropChild(sr, x, k)} |->
                                           IF d.stop THEN d
                                           ELSE IF d.n2
                                           THEN Stop(d, StoreInTSb(d.st))
                                           ELSE d])} |->
                        IF e.stop THEN e ELSE [e EXCEPT !.count = @ + 1]])])])} |->
  IF a.stop THEN a
          ELSE IF a.n2 /\ a.done THEN Stop(a, StoreInTSb(a.st))
          ELSE IF a.n2 /\ a.count = x.total_clust
          THEN With([t \in {StoreInTSb(a.st)} |->
               IF t.rc # 0 THEN Stop(a, t) ELSE CleanI2Loop(Go(a, t), x, k + 1)])
          ELSE CleanI2Loop(a, x, k + 1)])])

soCleanDataCluster(st, nInode, nLClust) ==
  With([a \in {soLoadSuperBlock(st)} |->
  IF a.rc # 0 THEN a
  ELSE IF nInode >= iTotal \/ nInode <= 0 \/ nLClust >= dZoneTotal
  THEN Ret(a, -EINVAL)
  ELSE With([b \in {soConvertRefInT(a, nInode)} |->
  \* stat = (soConvertRefInT(...) != 0), and the same for soLoadBlockInT
  IF b.rc # 0 THEN Ret(b, 1)
  ELSE With([c \in {soLoadBlockInT(b, b.cnv[1])} |->
  IF c.rc # 0 THEN Ret(c, 1)
  ELSE With([offset \in {b.cnv[2]} |->
  IF soQCheckFDInode(c, c.inode[offset]) # 0 THEN Ret(c, -EFDININVAL)
  ELSE With([x \in {[nInode |-> nInode, nLClust |-> nLClust, offset |-> offset,
                 total_clust |-> c.inode[offset].size \div CLUSTER_SIZE]} |->
  With([A \in {CleanDirectLoop([st |-> c, count |-> 0, n1 |-> FALSE,
                                 n2 |-> FALSE, done |-> FALSE, stop |-> FALSE],
                                x, 0)} |->
  IF A.stop THEN A.st
  \* the logical number i1 is handed over where a physical number is expected
  ELSE With([l1 \in {soLoadSngIndRefClust(A.st, A.st.inode[offset].i1)} |->
  IF l1.rc # 0 THEN l1
  ELSE With([B \in {CleanI1Loop(Go(A, l1), x, 0)} |->
  IF B.stop THEN B.st
  ELSE With([C \in {IF ~B.n1
                THEN With([trash \in {Invoke("soFreeDataCluster", B.st, <<B.st.inode[offset].i1>>)} |->
                With([m \in {[trash EXCEPT !.inode[offset].i1 = NULL_CLUSTER]} |->
                IF B.done THEN Stop(B, StoreSngInTSb(m)) ELSE Go(B, m)])])
                ELSE With([t \in {soStoreSngIndRefClust(B.st)} |->
                     IF t.rc # 0 THEN Stop(B, t)
                     ELSE IF B.done THEN Stop(B, StoreInTSb(t))
                     ELSE Go(B, t)])} |->
  IF C.stop THEN C.st
  ELSE With([l2 \in {soLoadSngIndRefClust(C.st, C.st.inode[offset].i2)} |->
  IF l2.rc # 0 THEN l2
  ELSE With([D \in {CleanI2Loop(Go(C, l2), x, 0)} |->
  IF D.stop THEN D.st
  ELSE With([e \in {StoreInTSb(D.st)} |->
  IF e.rc # 0 THEN e
  ELSE StoreInTSb(IF ~D.n2
                  THEN [Invoke("soFreeDataCluster", e, <<e.inode[offset].i2>>)
                          EXCEPT !.inode[offset].i2 = NULL_CLUSTER]
                  ELSE e)])])])])])])])])])])])])

(***************************************************************************)
(* sofs_ifuncs_2: soCleanInode.c; sofs_ifuncs_1: soAllocInode.c,           *)
(* soFreeInode.c                                                           *)
(***************************************************************************)
soCleanInode(st, nInode) ==
  With([a \in {soLoadSuperBlock(st)} |->
  IF a.rc # 0 THEN a
  ELSE IF nInode >= iTotal \/ nInode <= 0 THEN Ret(a, -EINVAL)
  ELSE With([b \in {soConvertRefInT(a, nInode)} |->
  IF b.rc # 0 THEN b
  ELSE With([c \in {soLoadBlockInT(b, b.cnv[1])} |->
  IF c.rc # 0 THEN c
  ELSE IF soQCheckFDInode(c, c.inode[b.cnv[2]]) # 0
  THEN Ret(c, soQCheckFDInode(c, c.inode[b.cnv[2]]))
  \* soReadInode(p_inode, nInode, stat) with stat = 0: its result is not looked at
  ELSE With([r \in {Invoke("soReadInode", c, <<"slot", nInode, 0>>)} |->
       StoreInTSb(r)])])])])

\* *p_nInode is returned in out
soAllocInode(st, type) ==
  IF TypeBits(type) = 0 THEN Ret(st, -EINVAL)
  ELSE With([a \in {soLoadSuperBlock(st)} |->
  IF a.rc # 0 THEN a
  ELSE IF a.sb.iFree = 0 THEN Ret(a, -ENOSPC)
  ELSE With([b0 \in {soConvertRefInT(a, a.sb.iHead)} |->
  IF b0.rc # 0 THEN b0
  ELSE With([b \in {[b0 EXCEPT !.out = a.sb.iHead]} |->
  With([nBlk \in {b.cnv[1]} |->
  With([offset \in {b.cnv[2]} |->
  With([c \in {soLoadBlockInT(b, nBlk)} |->
  IF c.rc # 0 THEN c
  ELSE IF soQCheckFInode(c.inode[offset]) # 0
  THEN Ret(c, soQCheckFInode(c.inode[offset]))
  ELSE With([d \in {IF soQCheckFCInode(c.inode[offset]) # 0
                THEN IF soQCheckFDInode(c, c.inode[offset]) # 0
                     THEN Ret(c, soQCheckFDInode(c, c.inode[offset]))
                     ELSE With([k \in {Invoke("soCleanInode", c, <<c.out>>)} |->
                          IF k.rc # 0 THEN k ELSE soLoadBlockInT(k, nBlk)])
                ELSE Ret(c, 0)} |->
  IF d.rc # 0 THEN [d EXCEPT !.out = a.sb.iHead]
  ELSE With([new_head \in {d.inode[offset].vD1} |->
  With([e \in {[d EXCEPT !.out = a.sb.iHead,
                          !.inode[offset] =
                             [MkInode(type, 0, Now(d), Now(d), NullDirect,
                                      NULL_CLUSTER, NULL_CLUSTER)
                                EXCEPT !.refCount = 0, !.owner = d.uid,
                                       !.group = d.gid, !.size = 0]]} |->
  With([f \in {soStoreBlockInT(e)} |->
  IF f.rc # 0 THEN f
  ELSE With([g \in {[f EXCEPT
                   !.sb.iFree = @ - 1,
                   !.sb.iHead = IF f.sb.iFree - 1 = 0 THEN NULL_INODE ELSE new_head,
                   !.sb.iTail = IF f.sb.iFree - 1 = 0 THEN NULL_INODE ELSE @]} |->
  With([h \in {IF new_head # NULL_INODE
                THEN With([v \in {soConvertRefInT(g, new_head)} |->
                     IF v.rc # 0 THEN v
                     ELSE With([l \in {soLoadBlockInT(v, v.cnv[1])} |->
                     IF l.rc # 0 THEN l
                     ELSE soStoreBlockInT(
                            [l EXCEPT !.inode[v.cnv[2]].vD2 = NULL_INODE])])])
                ELSE Ret(g, 0)} |->
  IF h.rc # 0 THEN h ELSE soStoreSuperBlock(h)])])])])])])])])])])])])

\* soFreeInode without the step that makes the old tail point to the freed inode
soFreeInode_noTailPatch(st, nInode) ==
  With([a \in {soLoadSuperBlock(st)} |->
  IF a.rc # 0 THEN a
  ELSE IF nInode >= iTotal \/ nInode <= 0 THEN Ret(a, -EINVAL)
  ELSE With([b \in {soConvertRefInT(a, nInode)} |->
  IF b.rc # 0 THEN b
  ELSE With([c \in {soLoadBlockInT(b, b.cnv[1])} |->
  IF c.rc # 0 THEN c
  ELSE With([offset \in {b.cnv[2]} |->
  IF soQCheckInodeIU(c, c.inode[offset]) # 0
  THEN Ret(c, soQCheckInodeIU(c, c.inode[offset]))
  ELSE StoreInTSb([c EXCEPT
                     !.inode[offset].mode = INODE_FREE,
                     !.inode[offset].vD2 = IF c.sb.iFree = 0 THEN NULL_INODE
                                           ELSE c.sb.iTail,
                     !.inode[offset].vD1 = NULL_INODE,
                     !.sb.iHead = IF c.sb.iFree = 0 THEN nInode ELSE @,
                     !.sb.iTail = nInode,
                     !.sb.iFree = (@ + 1) % U32])])])])])

soFreeInode(st, nInode) ==
  With([a \in {soLoadSuperBlock(st)} |->
  IF a.rc # 0 THEN a
  ELSE IF nInode >= iTotal \/ nInode <= 0 THEN Ret(a, -EINVAL)
  ELSE With([b \in {soConvertRefInT(a, nInode)} |->
  IF b.rc # 0 THEN b
  ELSE With([c \in {soLoadBlockInT(b, b.cnv[1])} |->
  IF c.rc # 0 THEN c
  ELSE With([offset \in {b.cnv[2]} |->
  IF soQCheckInodeIU(c, c.inode[offset]) # 0
  THEN Ret(c, soQCheckInodeIU(c, c.inode[offset]))
  ELSE With([d \in {[c EXCEPT
                   !.inode[offset].mode = INODE_FREE,
                   !.inode[offset].vD2 = IF c.sb.iFree = 0 THEN NULL_INODE
                                         ELSE c.sb.iTail,
                   !.inode[offset].vD1 = NULL_INODE,
                   !.sb.iHead = IF c.sb.iFree = 0 THEN nInode ELSE @,
                   !.sb.iTail = nInode,
                   !.sb.iFree = (@ + 1) % U32]} |->
  With([e \in {StoreInTSb(d)} |->
  IF e.rc # 0 THEN e
  ELSE IF e.sb.iFree > 1
  THEN With([v \in {soConvertRefInT(e, e.inode[offset].vD2)} |->
       IF v.rc # 0 THEN v
       ELSE With([l \in {soLoadBlockInT(v, v.cnv[1])} |->
       IF l.rc # 0 THEN l
       ELSE soStoreBlockInT([l EXCEPT !.inode[v.cnv[2]].vD1 = nInode])])])
  ELSE Ret(e, 0)])])])])])])

(***************************************************************************)
(* sofs_ifuncs_3: soHandleFileClusters.c, soWriteFileCluster.c             *)
(* clust2 points to the resident sngIndRefClust, clust1 to the resident    *)
(* dirRefClust; inode is the copy soReadInode filled at the start.  log    *)
(* records the positions handed to soHandleFileCluster, in the order of    *)
(* the calls.                                                              *)
(***************************************************************************)
RECURSIVE HandleChildLoop(_, _, _, _, _, _)
\* for(; ref_Doffset < RPC; ref_Doffset++, ind++); the result carries ind
HandleChildLoop(st, nInode, clustIndIn, op, ref_Doffset, ind) ==
  IF ref_Doffset >= RPC THEN [st |-> Ret(st, 0), ind |-> ind]
  ELSE IF st.dirRefClust.ref[ref_Doffset] # NULL_CLUSTER /\ clustIndIn <= ind
  THEN With([h \in {Invoke("soHandleFileCluster", [st EXCEPT !.log = Append(@, ind)],
                            <<nInode, ind, op>>)} |->
       IF h.rc # 0 THEN [st |-> h, ind |-> ind]
       ELSE HandleChildLoop(h, nInode, clustIndIn, op, ref_Doffset + 1, ind + 1)])
  ELSE HandleChildLoop(st, nInode, clustIndIn, op, ref_Doffset + 1, ind + 1)

RECURSIVE HandleI2Loop(_, _, _, _, _)
HandleI2Loop(st, nInode, clustIndIn, op, ind) ==
  IF ind >= MAX_FILE_CLUSTERS THEN Ret(st, 0)
  ELSE With([ref_Soffset \in {(ind - (RPC + N_DIRECT)) \div RPC} |->
  With([ref_Doffset \in {(ind - N_DIRECT - RPC) % RPC} |->
  IF st.sngIndRefClust.ref[ref_Soffset] # NULL_CLUSTER
          THEN With([l \in {soLoadDirRefClust(st,
                           Phys(st.sngIndRefClust.ref[ref_Soffset]))} |->
               IF l.rc # 0 THEN l
               ELSE With([c \in {HandleChildLoop(l, nInode, clustIndIn, op,
                                             ref_Doffset, ind)} |->
                    IF c.st.rc # 0 THEN c.st
                    ELSE HandleI2Loop(c.st, nInode, clustIndIn, op, c.ind)])])
          ELSE HandleI2Loop(st, nInode, clustIndIn, op, ind + RPC)])])

RECURSIVE HandleI1Loop(_, _, _, _, _)
HandleI1Loop(st, nInode, clustIndIn, op, ind) ==
  IF ind >= N_DIRECT + RPC THEN Ret(st, 0)
  ELSE IF st.dirRefClust.ref[ind - N_DIRECT] # NULL_CLUSTER /\ clustIndIn <= ind
  THEN With([h \in {Invoke("soHandleFileCluster", [st EXCEPT !.log = Append(@, ind)],
                            <<nInode, ind, op>>)} |->
       IF h.rc # 0 THEN h ELSE HandleI1Loop(h, nInode, clustIndIn, op, ind + 1)])
  ELSE HandleI1Loop(st, nInode, clustIndIn, op, ind + 1)

RECURSIVE HandleDirectLoop(_, _, _, _, _, _)
HandleDirectLoop(st, nInode, clustIndIn, op, d, ind) ==
  IF ind >= N_DIRECT THEN Ret(st, 0)
  ELSE IF d[ind] # NULL_CLUSTER /\ clustIndIn <= ind
  THEN With([h \in {Invoke("soHandleFileCluster", [st EXCEPT !.log = Append(@, ind)],
                            <<nInode, ind, op>>)} |->
       IF h.rc # 0 THEN h
       ELSE HandleDirectLoop(h, nInode, clustIndIn, op, d, ind + 1)])
  ELSE HandleDirectLoop(st, nInode, clustIndIn, op, d, ind + 1)

\* soHandleFileClusters leaving index clustIndIn of the direct references alone
soHandleFileClusters_skipFirst(st, nInode, clustIndIn, op) ==
  With([a \in {soLoadSuperBlock(st)} |->
  IF a.rc # 0 THEN a
  ELSE IF nInode >= iTotal THEN Ret(a, -EINVAL)
  ELSE IF clustIndIn >= MAX_FILE_CLUSTERS THEN Ret(a, -EINVAL)
  ELSE IF op < 2 \/ op > 4 THEN Ret(a, -EINVAL)
  ELSE With([r \in {Invoke("soReadInode", a, <<"local", nInode, IF op = CLEAN THEN FDIN ELSE IUIN>>)} |->
  IF r.rc # 0 THEN r
  ELSE With([i \in {r.ino} |->
  With([x \in {IF i.i2 # NULL_CLUSTER
                THEN With([l \in {soLoadSngIndRefClust(r, Phys(i.i2))} |->
                     IF l.rc # 0 THEN l
                     ELSE HandleI2Loop(l, nInode, clustIndIn, op, N_DIRECT + RPC)])
                ELSE Ret(r, 0)} |->
  IF x.rc # 0 THEN x
  ELSE With([y \in {IF i.i1 # NULL_CLUSTER
                THEN With([l \in {soLoadDirRefClust(x, Phys(i.i1))} |->
                     IF l.rc # 0 THEN l
                     ELSE HandleI1Loop(l, nInode, clustIndIn, op, N_DIRECT)])
                ELSE Ret(x, 0)} |->
  IF y.rc # 0 THEN y
  ELSE HandleDirectLoop(y, nInode, clustIndIn + 1, op, i.d, 0)])])])])])

\* soHandleFileClusters starting the double-indirect band at its second position
soHandleFileClusters_lateStart(st, nInode, clustIndIn, op) ==
  With([a \in {soLoadSuperBlock(st)} |->
  IF a.rc # 0 THEN a
  ELSE IF nInode >= iTotal THEN Ret(a, -EINVAL)
  ELSE IF clustIndIn >= MAX_FILE_CLUSTERS THEN Ret(a, -EINVAL)
  ELSE IF op < 2 \/ op > 4 THEN Ret(a, -EINVAL)
  ELSE With([r \in {Invoke("soReadInode", a, <<"local", nInode, IF op = CLEAN THEN FDIN ELSE IUIN>>)} |->
  IF r.rc # 0 THEN r
  ELSE With([i \in {r.ino} |->
  With([x \in {IF i.i2 # NULL_CLUSTER
                THEN With([l \in {soLoadSngIndRefClust(r, Phys(i.i2))} |->
                     IF l.rc # 0 THEN l
                     ELSE HandleI2Loop(l, nInode, clustIndIn, op, N_DIRECT + RPC + 1)])
                ELSE Ret(r, 0)} |->
  IF x.rc # 0 THEN x
  ELSE With([y \in {IF i.i1 # NULL_CLUSTER
                THEN With([l \in {soLoadDirRefClust(x, Phys(i.i1))} |->
                     IF l.rc # 0 THEN l
                     ELSE HandleI1Loop(l, nInode, clustIndIn, op, N_DIRECT)])
                ELSE Ret(x, 0)} |->
  IF y.rc # 0 THEN y
  ELSE HandleDirectLoop(y, nInode, clustIndIn, op, i.d, 0)])])])])])

soHandleFileClusters(st, nInode, clustIndIn, op) ==
  With([a \in {soLoadSuperBlock(st)} |->
  IF a.rc # 0 THEN a
  ELSE IF nInode >= iTotal THEN Ret(a, -EINVAL)
  ELSE IF clustIndIn >= MAX_FILE_CLUSTERS THEN Ret(a, -EINVAL)
  ELSE IF op < 2 \/ op > 4 THEN Ret(a, -EINVAL)
  ELSE With([r \in {Invoke("soReadInode", a, <<"local", nInode, IF op = CLEAN THEN FDIN ELSE IUIN>>)} |->
  IF r.rc # 0 THEN r
  ELSE With([i \in {r.ino} |->
  With([x \in {IF i.i2 # NULL_CLUSTER
                THEN With([l \in {soLoadSngIndRefClust(r, Phys(i.i2))} |->
                     IF l.rc # 0 THEN l
                     ELSE HandleI2Loop(l, nInode, clustIndIn, op, N_DIRECT + RPC)])
                ELSE Ret(r, 0)} |->
  IF x.rc # 0 THEN x
  ELSE With([y \in {IF i.i1 # NULL_CLUSTER
                THEN With([l \in {soLoadDirRefClust(x, Phys(i.i1))} |->
                     IF l.rc # 0 THEN l
                     ELSE HandleI1Loop(l, nInode, clustIndIn, op, N_DIRECT)])
                ELSE Ret(x, 0)} |->
  IF y.rc # 0 THEN y
  ELSE HandleDirectLoop(y, nInode, clustIndIn, op, i.d, 0)])])])])])

\* buff->info is copied in both its views
soWriteFileCluster(st, nInode, clustInd, buff) ==
  With([a \in {soLoadSuperBlock(st)} |->
  IF a.rc # 0 THEN a
  ELSE IF nInode >= iTotal \/ nInode <= 0 \/ clustInd > MAX_FILE_CLUSTERS
  THEN Ret(a, -EINVAL)
  ELSE With([g \in {Invoke("soHandleFileCluster", a, <<nInode, clustInd, GET>>)} |->
  IF g.rc # 0 THEN g
  ELSE With([h \in {IF g.out = NULL_CLUSTER
                THEN Invoke("soHandleFileCluster", g, <<nInode, clustInd, ALLOC>>)
                ELSE Ret(g, 0)} |->
  IF h.rc # 0 THEN h
  ELSE With([l \in {soLoadDirRefClust(h, Phys(h.out))} |->
  IF l.rc # 0 THEN l
  ELSE With([t \in {soStoreDirRefClust([l EXCEPT !.dirRefClust.ref = buff.ref,
                                                !.dirRefClust.de = buff.de])} |->
  IF t.rc # 0 THEN t ELSE soStoreSuperBlock(t)])])])])])

(***************************************************************************)
(* Directories: the checks of sofs_basicconsist.h and of                   *)
(* soCheckDirectoryEmptiness, which have no code in the repository, as the *)
(* specification and the interface comments describe them                  *)
(***************************************************************************)
\* the bytes of a name up to its first NUL: the string that strcmp and strlen see
RECURSIVE CStr(_)
CStr(b) == IF b = <<>> \/ b[1] = 0 THEN <<>> ELSE <<b[1]>> \o CStr(Tail(b))

\* the states of a directory entry
DeInUse(e) == ByteOf(e.name, 0) # 0 /\ e.last = 0 /\ e.nInode < iTotal
DeClean(e) == e.name = <<>> /\ e.last = 0 /\ e.nInode = NULL_INODE
DeDirty(e) == ByteOf(e.name, 0) = 0 /\ e.last # 0 /\ e.nInode < iTotal

\* the cluster that index k of the file of inode i refers to
FileClusterOf(dz, i, k) ==
  IF k < N_DIRECT THEN i.d[k]
  ELSE IF k < N_DIRECT + RPC
  THEN IF i.i1 \in Clusters THEN dz[i.i1].ref[k - N_DIRECT] ELSE NULL_CLUSTER
  ELSE IF i.i2 \notin Clusters THEN NULL_CLUSTER
  ELSE IF dz[i.i2].ref[(k - N_DIRECT - RPC) \div RPC] \notin Clusters THEN NULL_CLUSTER
  ELSE dz[dz[i.i2].ref[(k - N_DIRECT - RPC) \div RPC]].ref[(k - N_DIRECT - RPC) % RPC]

\* the number of clusters that the size of a directory stands for
DirClusters(i) == i.size \div (DPC * DirEntrySize)

\* the directory entries of the directory of inode i, in the order of their indices
RECURSIVE DirEntriesFrom(_, _, _)
DirEntriesFrom(dz, i, k) ==
  IF k >= DirClusters(i) \/ k >= MAX_FILE_CLUSTERS THEN <<>>
  ELSE IF FileClusterOf(dz, i, k) \notin Clusters THEN <<>>
  ELSE [j \in 1 .. DPC |-> dz[FileClusterOf(dz, i, k)].de[j - 1]]
       \o DirEntriesFrom(dz, i, k + 1)

DirEntries(dz, i) == DirEntriesFrom(dz, i, 0)

\* each entry is in use, clean or dirty, and the first two are "." and ".."
soQCheckDirCont(st, p_inode) ==
  IF TypeBits(p_inode.mode) # INODE_DIR THEN -ENOTDIR
  ELSE IF \/ p_inode.size % (DPC * DirEntrySize) # 0
          \/ Len(DirEntries(st.dZone, p_inode)) # DPC * DirClusters(p_inode)
          \/ Len(DirEntries(st.dZone, p_inode)) < 2
  THEN -EDIRINVAL
  ELSE IF \/ CStr(DirEntries(st.dZone, p_inode)[1].name) # Dot
          \/ CStr(DirEntries(st.dZone, p_inode)[2].name) # DotDot
  THEN -EDIRINVAL
  ELSE IF \E j \in 1 .. Len(DirEntries(st.dZone, p_inode)) :
            LET e == DirEntries(st.dZone, p_inode)[j]
            IN  ~(DeInUse(e) \/ DeClean(e) \/ DeDirty(e))
  THEN -EDEINVAL
  ELSE 0

\* success unless an entry past index 1 is in use
soCheckDirectoryEmptiness(st, nInodeDir) ==
  IF nInodeDir >= iTotal THEN Ret(st, -EINVAL)
  ELSE IF soQCheckInodeIU(st, st.dInT[nInodeDir]) # 0
  THEN Ret(st, soQCheckInodeIU(st, st.dInT[nInodeDir]))
  ELSE IF TypeBits(st.dInT[nInodeDir].mode) # INODE_DIR THEN Ret(st, -ENOTDIR)
  ELSE IF \E j \in 3 .. Len(DirEntries(st.dZone, st.dInT[nInodeDir])) :
            DeInUse(DirEntries(st.dZone, st.dInT[nInodeDir])[j])
  THEN Ret(st, -ENOTEMPTY)
  ELSE Ret(st, 0)

(***************************************************************************)
(* sofs_ifuncs_3: soReadFileCluster.c; sofs_ifuncs_2: soAccessGranted.c    *)
(***************************************************************************)
\* *buff is returned in buf.  pInode is the resident inode-table block, so
\* soReadInode copies the inode into its first element.  The cluster that was
\* never allocated reads as NUL bytes: memset covers the header and every
\* directory entry.
soReadFileCluster(st, nInode, clustInd) ==
  With([a \in {soLoadSuperBlock(st)} |->
  IF a.rc # 0 THEN a
  ELSE IF nInode >= iTotal \/ nInode <= 0 \/ clustInd >= MAX_FILE_CLUSTERS
  THEN Ret(a, -EINVAL)
  ELSE With([b \in {soConvertRefInT(a, nInode)} |->
  IF b.rc # 0 THEN b
  ELSE With([c \in {soLoadBlockInT(b, b.cnv[1])} |->
  IF c.rc # 0 THEN c
  ELSE With([r \in {Invoke("soReadInode", c, <<"slot", nInode, IUIN>>)} |->
  IF r.rc # 0 THEN r
  ELSE With([g \in {Invoke("soHandleFileCluster", r, <<nInode, clustInd, GET>>)} |->
  IF g.rc # 0 THEN g
  ELSE IF g.out = NULL_CLUSTER THEN [g EXCEPT !.buf = ZeroClust, !.rc = 0]
  ELSE soReadCacheCluster(g, Phys(g.out))])])])])])

\* mode & bit, for a bit of the permissions
ModeBit(mode, bit) == (mode \div bit) % 2

\* one of the operations requested lacks its bit among rd, wr and ex
Denied(mode, opRequested, rd, wr, ex) ==
  \/ ModeBit(opRequested, R) = 1 /\ ModeBit(mode, rd) = 0
  \/ ModeBit(opRequested, W) = 1 /\ ModeBit(mode, wr) = 0
  \/ ModeBit(opRequested, X) = 1 /\ ModeBit(mode, ex) = 0

\* soAccessGranted with the group looked at before the owner
soAccessGranted_groupFirst(st, nInode, opRequested) ==
  With([a \in {soLoadSuperBlock(st)} |->
  IF a.rc # 0 THEN a
  ELSE IF nInode >= iTotal THEN Ret(a, -EINVAL)
  ELSE IF opRequested > 7 \/ opRequested <= 0 THEN Ret(a, -EINVAL)
  ELSE With([b \in {soConvertRefInT(a, nInode)} |->
  IF b.rc # 0 THEN b
  ELSE With([c \in {soLoadBlockInT(b, b.cnv[1])} |->
  IF c.rc # 0 THEN c
  ELSE With([p_ind \in {c.inode[b.cnv[2]]} |->
  IF soQCheckInodeIU(c, p_ind) # 0 THEN Ret(c, -ELIBBAD)
  ELSE IF FreeBit(p_ind.mode) # 0 THEN Ret(c, -EIUININVAL)
  ELSE IF TypeBits(p_ind.mode) \notin {INODE_DIR, INODE_FILE, INODE_SYMLINK}
  THEN Ret(c, -EINVAL)
  ELSE IF c.uid = 0
  THEN IF /\ ModeBit(opRequested, X) = 1
          /\ ModeBit(p_ind.mode, INODE_EX_USR) = 0
          /\ ModeBit(p_ind.mode, INODE_EX_GRP) = 0
          /\ ModeBit(p_ind.mode, INODE_EX_OTH) = 0
       THEN Ret(c, -EACCES)
       ELSE soStoreBlockInT(c)
  ELSE IF c.uid = p_ind.owner /\ c.gid # p_ind.group
  THEN IF Denied(p_ind.mode, opRequested, INODE_RD_USR, INODE_WR_USR, INODE_EX_USR)
       THEN Ret(c, -EACCES)
       ELSE soStoreBlockInT(c)
  ELSE IF c.gid = p_ind.group
  THEN IF Denied(p_ind.mode, opRequested, INODE_RD_GRP, INODE_WR_GRP, INODE_EX_GRP)
       THEN Ret(c, -EACCES)
       ELSE soStoreBlockInT(c)
  ELSE IF Denied(p_ind.mode, opRequested, INODE_RD_OTH, INODE_WR_OTH, INODE_EX_OTH)
  THEN Ret(c, -EACCES)
  ELSE soStoreBlockInT(c)])])])])

soAccessGranted(st, nInode, opRequested) ==
  With([a \in {soLoadSuperBlock(st)} |->
  IF a.rc # 0 THEN a
  ELSE IF nInode >= iTotal THEN Ret(a, -EINVAL)
  ELSE IF opRequested > 7 \/ opRequested <= 0 THEN Ret(a, -EINVAL)
  ELSE With([b \in {soConvertRefInT(a, nInode)} |->
  IF b.rc # 0 THEN b
  ELSE With([c \in {soLoadBlockInT(b, b.cnv[1])} |->
  IF c.rc # 0 THEN c
  ELSE With([p_ind \in {c.inode[b.cnv[2]]} |->
  IF soQCheckInodeIU(c, p_ind) # 0 THEN Ret(c, -ELIBBAD)
  ELSE IF FreeBit(p_ind.mode) # 0 THEN Ret(c, -EIUININVAL)
  ELSE IF TypeBits(p_ind.mode) \notin {INODE_DIR, INODE_FILE, INODE_SYMLINK}
  THEN Ret(c, -EINVAL)
  ELSE IF c.uid = 0
  THEN IF /\ ModeBit(opRequested, X) = 1
          /\ ModeBit(p_ind.mode, INODE_EX_USR) = 0
          /\ ModeBit(p_ind.mode, INODE_EX_GRP) = 0
          /\ ModeBit(p_ind.mode, INODE_EX_OTH) = 0
       THEN Ret(c, -EACCES)
       ELSE soStoreBlockInT(c)
  ELSE IF c.uid = p_ind.owner
  THEN IF Denied(p_ind.mode, opRequested, INODE_RD_USR, INODE_WR_USR, INODE_EX_USR)
       THEN Ret(c, -EACCES)
       ELSE soStoreBlockInT(c)
  ELSE IF c.gid = p_ind.group
  THEN IF Denied(p_ind.mode, opRequested, INODE_RD_GRP, INODE_WR_GRP, INODE_EX_GRP)
       THEN Ret(c, -EACCES)
       ELSE soStoreBlockInT(c)
  ELSE IF Denied(p_ind.mode, opRequested, INODE_RD_OTH, INODE_WR_OTH, INODE_EX_OTH)
  THEN Ret(c, -EACCES)
  ELSE soStoreBlockInT(c)])])])])

(***************************************************************************)
(* sofs_ifuncs_4: soGetDirEntryByName.c                                    *)
(***************************************************************************)
\* the inner loop over the entries j, j+1, ... of a cluster: "found" with the
\* entry of that name, "free" at an entry free in the clean state, "none" at
\* the end of the cluster
RECURSIVE ScanCluster(_, _, _)
ScanCluster(de, eName, j) ==
  IF j >= DPC THEN [how |-> "none", j |-> j]
  ELSE IF CStr(de[j].name) = eName THEN [how |-> "found", j |-> j]
  ELSE IF ByteOf(de[j].name, 0) = 0 /\ de[j].last = 0 THEN [how |-> "free", j |-> j]
  ELSE ScanCluster(de, eName, j + 1)

\* the outer loop over the clusters i, i+1, ... of the directory
RECURSIVE ScanDirectory(_, _, _, _, _)
ScanDirectory(st, nInodeDir, eName, i, p_Inode) ==
  IF i >= DirClusters(p_Inode)
  THEN [st EXCEPT !.idx = (p_Inode.cluCount * DPC) % U32, !.rc = -ENOENT]
  ELSE With([r \in {Invoke("soReadFileCluster", st, <<nInodeDir, i>>)} |->
  IF r.rc # 0 THEN r
  ELSE With([s \in {ScanCluster(r.buf.de, eName, 0)} |->
  IF s.how = "found"
  THEN [r EXCEPT !.ent = r.buf.de[s.j].nInode, !.idx = (i * DPC) + s.j, !.rc = 0]
  ELSE IF s.how = "free"
  THEN [r EXCEPT !.idx = (i * DPC) + s.j, !.rc = -ENOENT]
  ELSE ScanDirectory(r, nInodeDir, eName, i + 1, p_Inode)])])

\* *p_nInodeEnt is returned in ent and *p_idx in idx, which keep the value the
\* caller had there when the function does not assign them
soGetDirEntryByName(st, nInodeDir, eName) ==
  With([a \in {soLoadSuperBlock(st)} |->
  IF a.rc # 0 THEN a
  ELSE IF nInodeDir >= iTotal THEN Ret(a, -EINVAL)
  ELSE IF Len(eName) = 0 THEN Ret(a, -EINVAL)
  ELSE IF Len(eName) > MAX_NAME THEN Ret(a, -ENAMETOOLONG)
  ELSE IF \E k \in 1 .. Len(eName) : eName[k] = Slash THEN Ret(a, -EINVAL)
  ELSE With([r \in {Invoke("soReadInode", a, <<"local", nInodeDir, IUIN>>)} |->
  IF r.rc # 0 THEN r
  ELSE IF TypeBits(r.ino.mode) # INODE_DIR THEN Ret(r, -ENOTDIR)
  ELSE IF soQCheckDirCont(r, r.ino) # 0 THEN Ret(r, soQCheckDirCont(r, r.ino))
  ELSE With([g \in {Invoke("soAccessGranted", r, <<nInodeDir, X>>)} |->
  IF g.rc # 0 THEN g
  ELSE ScanDirectory(g, nInodeDir, eName, 0, r.ino)])])])

(***************************************************************************)
(* sofs_ifuncs_4: soAddAttDirEntry.c                                       *)
(***************************************************************************)
\* uint16_t arithmetic on refCount
U16(n) == n % (REFCOUNT_MAX + 1)

\* strcpy(name, eName): the bytes of eName, a NUL, and the bytes that name had
\* after them
StrCpy(name, eName) ==
  Trim(eName \o <<0>> \o SubSeq(name, Len(eName) + 2, Len(name)))

\* the entry that strcpy of eName and the assignment of nInode leave
Named(e, eName, nInode) ==
  [name |-> StrCpy(e.name, eName),
   last |-> IF Len(eName) = MAX_NAME THEN 0 ELSE e.last,
   nInode |-> nInode]

\* a cluster that the directory did not have yet is allocated, its entries are
\* all made clean and the size of the directory grows
AddAttGrow(st, nInodeDir, clustIdx) ==
  With([h \in {Invoke("soHandleFileCluster", st, <<nInodeDir, clustIdx, ALLOC>>)} |->
  IF h.rc # 0 THEN h
  ELSE With([r \in {Invoke("soReadFileCluster", h, <<nInodeDir, clustIdx>>)} |->
  IF r.rc # 0 THEN r
  ELSE With([w \in {Invoke("soWriteFileCluster", r,
                           <<nInodeDir, clustIdx,
                             DeView(r.buf, [i \in DeIdx |-> CleanDirEntry])>>)} |->
  IF w.rc # 0 THEN w
  ELSE With([i \in {Invoke("soReadInode", w, <<"local", nInodeDir, IUIN>>)} |->
  IF i.rc # 0 THEN i
  ELSE Invoke("soWriteInode", i,
              <<[i.ino EXCEPT !.size = (@ + (DirEntrySize * DPC)) % U32],
                nInodeDir, IUIN>>)])])])])

\* the first cluster of a directory that has none: "." and ".." are written
\* with strcpy over what the cluster holds, the other entries are made clean
AddFirstCluster(st, nInodeDir, nInodeEnt) ==
  With([h \in {Invoke("soHandleFileCluster", st, <<nInodeEnt, 0, ALLOC>>)} |->
  IF h.rc # 0 THEN h
  ELSE With([r \in {Invoke("soReadFileCluster", h, <<nInodeEnt, 0>>)} |->
  IF r.rc # 0 THEN r
  ELSE With([w \in {Invoke("soWriteFileCluster", r,
                           <<nInodeEnt, 0,
                             DeView(r.buf,
                                    [i \in DeIdx |->
                                       IF i = 0 THEN Named(r.buf.de[0], Dot, nInodeEnt)
                                       ELSE IF i = 1 THEN Named(r.buf.de[1], DotDot, nInodeDir)
                                       ELSE CleanDirEntry])>>)} |->
  IF w.rc # 0 THEN w
  ELSE With([e \in {Invoke("soReadInode", w, <<"local", nInodeEnt, IUIN>>)} |->
  IF e.rc # 0 THEN e
  ELSE With([f \in {Invoke("soWriteInode", e,
                           <<[e.ino EXCEPT !.refCount = 2, !.size = DirEntrySize * DPC],
                             nInodeEnt, IUIN>>)} |->
  IF f.rc # 0 THEN f
  ELSE With([d \in {Invoke("soReadInode", f, <<"local", nInodeDir, IUIN>>)} |->
  IF d.rc # 0 THEN d
  ELSE Invoke("soWriteInode", d,
              <<[d.ino EXCEPT !.refCount = U16(@ + 1)], nInodeDir, IUIN>>)])])])])])])

\* op = ADD
AddEntry(st, nInodeDir, eName, nInodeEnt, clustIdx, dirEntryIdx) ==
  With([r \in {Invoke("soReadFileCluster", st, <<nInodeDir, clustIdx>>)} |->
  IF r.rc # 0 THEN r
  ELSE With([w \in {Invoke("soWriteFileCluster", r,
                           <<nInodeDir, clustIdx,
                             DeView(r.buf, [r.buf.de EXCEPT ![dirEntryIdx] =
                                              Named(@, eName, nInodeEnt)])>>)} |->
  IF w.rc # 0 THEN w
  ELSE With([e \in {Invoke("soReadInode", w, <<"local", nInodeEnt, IUIN>>)} |->
  IF e.rc # 0 THEN e
  ELSE IF ModeBit(e.ino.mode, INODE_DIR) = 1
  THEN IF e.ino.cluCount = 0
       THEN AddFirstCluster(e, nInodeDir, nInodeEnt)
       ELSE With([f \in {Invoke("soReadInode", e, <<"local", nInodeEnt, IUIN>>)} |->
            IF f.rc # 0 THEN f
            ELSE Invoke("soWriteInode", f,
                        <<[f.ino EXCEPT !.refCount = U16(@ + 1)], nInodeEnt, IUIN>>)])
  ELSE Invoke("soWriteInode", e,
              <<[e.ino EXCEPT !.refCount = U16(@ + 1)], nInodeEnt, IUIN>>)])])])

\* op = ATTACH
AttachEntry(st, nInodeDir, eName, nInodeEnt, clustIdx, dirEntryIdx) ==
  With([e \in {Invoke("soReadInode", st, <<"local", nInodeEnt, IUIN>>)} |->
  IF e.rc # 0 THEN e
  ELSE IF ModeBit(e.ino.mode, INODE_DIR) # 1 THEN Ret(e, -ENOTDIR)
  ELSE With([r \in {Invoke("soReadFileCluster", e, <<nInodeDir, clustIdx>>)} |->
  IF r.rc # 0 THEN r
  ELSE With([w \in {Invoke("soWriteFileCluster", r,
                           <<nInodeDir, clustIdx,
                             DeView(r.buf, [r.buf.de EXCEPT ![dirEntryIdx] =
                                              Named(@, eName, nInodeEnt)])>>)} |->
  IF w.rc # 0 THEN w
  ELSE With([d \in {Invoke("soReadInode", w, <<"local", nInodeDir, IUIN>>)} |->
  IF d.rc # 0 THEN d
  ELSE Invoke("soWriteInode", d,
              <<[d.ino EXCEPT !.refCount = U16(@ + 1)], nInodeDir, IUIN>>)])])])])

\* idx is the value that the variable idx of the function holds before
\* soGetDirEntryByName is called, which does not assign it on every path
soAddAttDirEntry(st, nInodeDir, eName, nInodeEnt, op, idx) ==
  With([a \in {soLoadSuperBlock(st)} |->
  IF a.rc # 0 THEN a
  ELSE IF \/ (op # ATTACH /\ op # ADD)
          \/ nInodeDir > iTotal \/ nInodeEnt > iTotal \/ Len(eName) = 0
  THEN Ret(a, -EINVAL)
  ELSE IF Len(eName) > MAX_NAME THEN Ret(a, -ENAMETOOLONG)
  ELSE With([r \in {Invoke("soReadInode", a, <<"local", nInodeDir, IUIN>>)} |->
  IF r.rc # 0 THEN r
  ELSE IF ModeBit(r.ino.mode, INODE_DIR) # 1 THEN Ret(r, -ENOTDIR)
  ELSE With([x \in {Invoke("soAccessGranted", r, <<nInodeDir, X>>)} |->
  IF x.rc # 0 THEN Ret(x, -EACCES)
  ELSE With([w \in {Invoke("soAccessGranted", x, <<nInodeDir, W>>)} |->
  IF w.rc # 0 THEN Ret(w, -EPERM)
  ELSE IF r.ino.size >= MAX_FILE_SIZE THEN Ret(w, -EFBIG)
  ELSE IF r.ino.refCount = REFCOUNT_MAX THEN Ret(w, -EMLINK)
  ELSE With([n \in {Invoke("soGetDirEntryByName", [w EXCEPT !.idx = idx],
                           <<nInodeDir, eName>>)} |->
  IF n.rc = 0 THEN Ret(n, -EEXIST)
  ELSE With([g \in {Invoke("soHandleFileCluster", n, <<nInodeDir, n.idx \div DPC, GET>>)} |->
  IF g.rc # 0 THEN g
  ELSE With([h \in {IF g.out = NULL_CLUSTER
                    THEN AddAttGrow(g, nInodeDir, n.idx \div DPC) ELSE Ret(g, 0)} |->
  IF h.rc # 0 THEN h
  ELSE IF op = ADD
  THEN AddEntry(h, nInodeDir, eName, nInodeEnt, n.idx \div DPC, n.idx % DPC)
  ELSE AttachEntry(h, nInodeDir, eName, nInodeEnt, n.idx \div DPC, n.idx % DPC)])])])])])])])

(***************************************************************************)
(* sofs_ifuncs_4: soRemDetachDirEntry.c                                    *)
(***************************************************************************)
\* op = REM, after the entry was found: inodeDir and inodeEntry are the copies
\* of the two inodes that the function read before
RemEntry(st, nInodeDir, nInodeEnt, idxDir, inodeDir, inodeEntry) ==
  With([isDir \in {ModeBit(inodeEntry.mode, INODE_DIR) = 1} |->
  With([c \in {IF isDir THEN soCheckDirectoryEmptiness(st, nInodeEnt) ELSE Ret(st, 0)} |->
  IF c.rc # 0 THEN c
  ELSE With([iEnt \in {[inodeEntry EXCEPT
                         !.refCount = U16(@ - (IF isDir THEN 2 ELSE 1))]} |->
  With([iDir \in {[inodeDir EXCEPT !.refCount = IF isDir THEN U16(@ - 1) ELSE @]} |->
  With([r \in {Invoke("soReadFileCluster", c, <<nInodeDir, idxDir \div DPC>>)} |->
  IF r.rc # 0 THEN r
  ELSE With([w \in {Invoke("soWriteFileCluster", r,
                           <<nInodeDir, idxDir \div DPC,
                             DeView(r.buf, [r.buf.de EXCEPT ![idxDir % DPC] =
                                [name |-> Trim([@.name EXCEPT ![1] = 0]),
                                 last |-> ByteOf(@.name, 0),
                                 nInode |-> @.nInode]])>>)} |->
  IF w.rc # 0 THEN w
  ELSE With([e \in {Invoke("soWriteInode", w, <<iEnt, nInodeEnt, IUIN>>)} |->
  IF e.rc # 0 THEN e
  ELSE IF iEnt.refCount = 0
  THEN With([h \in {Invoke("soHandleFileClusters", e, <<nInodeEnt, 0, FREE>>)} |->
       IF h.rc # 0 THEN h
       ELSE With([f \in {Invoke("soFreeInode", h, <<nInodeEnt>>)} |->
       IF f.rc # 0 THEN f
       ELSE Invoke("soWriteInode", f, <<iDir, nInodeDir, IUIN>>)])])
  ELSE Invoke("soWriteInode", e, <<iDir, nInodeDir, IUIN>>)])])])])])])])

\* op = DETACH, after the entry was found
DetachEntry(st, nInodeDir, nInodeEnt, idxDir, inodeDir, inodeEntry) ==
  With([isDir \in {ModeBit(inodeEntry.mode, INODE_DIR) = 1} |->
  With([iEnt \in {[inodeEntry EXCEPT
                         !.refCount = U16(@ - (IF isDir THEN 2 ELSE 1))]} |->
  With([iDir \in {[inodeDir EXCEPT !.refCount = IF isDir THEN U16(@ - 1) ELSE @]} |->
  With([r \in {Invoke("soReadFileCluster", st, <<nInodeDir, idxDir \div DPC>>)} |->
  IF r.rc # 0 THEN r
  ELSE With([w \in {Invoke("soWriteFileCluster", r,
                           <<nInodeDir, idxDir \div DPC,
                             DeView(r.buf, [r.buf.de EXCEPT ![idxDir % DPC] =
                                [name |-> <<>>, last |-> @.last,
                                 nInode |-> NULL_INODE]])>>)} |->
  IF w.rc # 0 THEN w
  ELSE With([e \in {Invoke("soWriteInode", w, <<iEnt, nInodeEnt, IUIN>>)} |->
  IF e.rc # 0 THEN e
  ELSE Invoke("soWriteInode", e, <<iDir, nInodeDir, IUIN>>)])])])])])])

soRemDetachDirEntry(st, nInodeDir, eName, op) ==
  IF op # REM /\ op # DETACH THEN Ret(st, -EINVAL)
  ELSE With([r \in {Invoke("soReadInode", st, <<"local", nInodeDir, IUIN>>)} |->
  IF r.rc # 0 THEN r
  ELSE IF ModeBit(r.ino.mode, INODE_DIR) # 1 THEN Ret(r, -ENOTDIR)
  ELSE With([x \in {Invoke("soAccessGranted", r, <<nInodeDir, X>>)} |->
  IF x.rc # 0 THEN x
  ELSE With([w \in {Invoke("soAccessGranted", x, <<nInodeDir, W>>)} |->
  IF w.rc # 0 THEN w
  ELSE IF Len(eName) = 0 THEN Ret(w, -EINVAL)
  ELSE IF Len(eName) > MAX_NAME THEN Ret(w, -ENAMETOOLONG)
  ELSE IF \E k \in 1 .. Len(eName) : eName[k] = Slash THEN Ret(w, -EINVAL)
  ELSE With([n \in {Invoke("soGetDirEntryByName", w, <<nInodeDir, eName>>)} |->
  IF n.rc # 0 THEN n
  ELSE With([e \in {Invoke("soReadInode", n, <<"local", n.ent, IUIN>>)} |->
  IF e.rc # 0 THEN e
  ELSE IF op = REM
  THEN RemEntry(e, nInodeDir, n.ent, n.idx, r.ino, e.ino)
  ELSE DetachEntry(e, nInodeDir, n.ent, n.idx, r.ino, e.ino)])])])])])

(***************************************************************************)
(* sofs_ifuncs_4: soRenameDirEntry.c                                       *)
(***************************************************************************)
\* the entry whose name was filled with NUL bytes before strcpy of newName
Renamed(e, newName) == [name |-> newName, last |-> 0, nInode |-> e.nInode]

\* p_idx keeps what the lookup of oldName stored: the lookup of newName is
\* given no place to store an index, and any failure of it lets the call go on
soRenameDirEntry(st, nInodeDir, oldName, newName) ==
  With([a \in {soLoadSuperBlock(st)} |->
  IF a.rc # 0 THEN a
  ELSE IF nInodeDir >= iTotal THEN Ret(a, -EINVAL)
  ELSE IF Len(oldName) > MAX_NAME THEN Ret(a, -ENAMETOOLONG)
  ELSE IF Len(newName) > MAX_NAME THEN Ret(a, -ENAMETOOLONG)
  ELSE With([r \in {Invoke("soReadInode", a, <<"local", nInodeDir, IUIN>>)} |->
  IF r.rc # 0 THEN r
  ELSE IF soQCheckInodeIU(r, r.ino) # 0 THEN Ret(r, soQCheckInodeIU(r, r.ino))
  ELSE With([x \in {Invoke("soAccessGranted", r, <<nInodeDir, X>>)} |->
  IF x.rc # 0 THEN Ret(x, -EACCES)
  ELSE With([w \in {Invoke("soAccessGranted", x, <<nInodeDir, W>>)} |->
  IF w.rc # 0 THEN Ret(w, -EPERM)
  ELSE IF ModeBit(r.ino.mode, INODE_DIR) # 1 THEN Ret(w, -ENOTDIR)
  ELSE With([o \in {Invoke("soGetDirEntryByName", w, <<nInodeDir, oldName>>)} |->
  IF o.rc # 0 THEN o
  ELSE With([n \in {Invoke("soGetDirEntryByName", o, <<nInodeDir, newName>>)} |->
  IF n.rc = 0 THEN Ret(n, -EEXIST)
  ELSE With([c \in {Invoke("soReadFileCluster", n, <<nInodeDir, o.idx \div DPC>>)} |->
  IF c.rc # 0 THEN c
  ELSE Invoke("soWriteFileCluster", c,
              <<nInodeDir, o.idx \div DPC,
                DeView(c.buf, [c.buf.de EXCEPT ![o.idx % DPC] =
                                 Renamed(@, newName)])>>)])])])])])])])

(***************************************************************************)
(* sofs_ifuncs_4: soGetDirEntryByPath.c                                    *)
(***************************************************************************)
\* the path "/"
Root == <<Slash>>

\* a path without the slashes it ends with
RECURSIVE StripSlashes(_)
StripSlashes(p) ==
  IF p = <<>> \/ p[Len(p)] # Slash THEN p ELSE StripSlashes(SubSeq(p, 1, Len(p) - 1))

\* the position of the last slash of a path, 0 when it has none
RECURSIVE LastSlash(_)
LastSlash(p) ==
  IF p = <<>> THEN 0
  ELSE IF p[Len(p)] = Slash THEN Len(p) ELSE LastSlash(SubSeq(p, 1, Len(p) - 1))

\* dirname(3) and basename(3) of libgen.h
Dirname(p) ==
  IF p = <<>> THEN Dot
  ELSE IF StripSlashes(p) = <<>> THEN Root
  ELSE IF LastSlash(StripSlashes(p)) = 0 THEN Dot
  ELSE IF StripSlashes(SubSeq(p, 1, LastSlash(StripSlashes(p)))) = <<>> THEN Root
  ELSE StripSlashes(SubSeq(p, 1, LastSlash(StripSlashes(p))))

Basename(p) ==
  IF p = <<>> THEN Dot
  ELSE IF StripSlashes(p) = <<>> THEN Root
  ELSE SubSeq(StripSlashes(p), LastSlash(StripSlashes(p)) + 1, Len(StripSlashes(p)))

\* u holds, for this activation of soTraversePath and the ones it starts, what
\* soQCheckInodeIU answers for the variable inode before anything was stored
\* in it
Garbage(u) == IF u = <<>> THEN -EIUININVAL ELSE Head(u)
Deeper(u) == IF u = <<>> THEN <<>> ELSE Tail(u)

RECURSIVE soTraversePath(_, _, _)
RECURSIVE TraverseEntry(_, _, _)
RECURSIVE FollowLink(_, _)

\* the entry is a symbolic link: the path it holds is traversed; log records
\* the path that memcpy takes from the buffer
FollowLink(st, u) ==
  IF st.nSymLinks = 1 THEN Ret(st, -ELOOP)
  ELSE With([a \in {Invoke("soAccessGranted", [st EXCEPT !.nSymLinks = 1],
                           <<st.ent, R + X>>)} |->
  IF a.rc # 0 THEN a
  ELSE With([c \in {Invoke("soReadFileCluster", a, <<a.ent, a.idx \div DPC>>)} |->
  IF c.rc # 0 THEN c
  ELSE With([x \in {soTraversePath([c EXCEPT !.oldNInodeDir = c.dir,
                                             !.log = Append(@, CStr(c.buf.de[0].name))],
                                   CStr(c.buf.de[0].name), Deeper(u))} |->
  IF x.rc # 0 THEN x
  ELSE With([s \in {soStoreSuperBlock(x)} |->
  IF s.rc # 0 THEN Ret(s, -ELIBBAD) ELSE Ret(s, 0)])])])])

\* the part of soTraversePath that looks b_name up in the directory *p_nInodeDir
TraverseEntry(st, b_name, u) ==
  IF Garbage(u) # 0 THEN Ret(st, -ELDCININVAL)
  ELSE With([r \in {Invoke("soReadInode", st, <<"local", st.dir, IUIN>>)} |->
  IF r.rc # 0 THEN r
  ELSE IF soQCheckDirCont(r, r.ino) # 0 THEN Ret(r, -EDIRINVAL)
  ELSE IF ModeBit(r.ino.mode, INODE_DIR) # 1 THEN Ret(r, -ENOTDIR)
  ELSE With([g \in {Invoke("soAccessGranted", r, <<r.dir, X>>)} |->
  IF g.rc # 0 THEN Ret(g, -EACCES)
  ELSE With([n \in {Invoke("soGetDirEntryByName", g, <<g.dir, b_name>>)} |->
  IF n.rc # 0 THEN Ret(n, -ENOENT)
  ELSE IF soQCheckInodeIU(n, r.ino) # 0 THEN Ret(n, soQCheckInodeIU(n, r.ino))
  ELSE With([e \in {Invoke("soReadInode", n, <<"local", n.ent, IUIN>>)} |->
  IF e.rc # 0 THEN e
  ELSE IF soQCheckDirCont(e, e.ino) # 0 THEN Ret(e, -EDEINVAL)
  ELSE IF ModeBit(e.ino.mode, INODE_SYMLINK) = 1 THEN FollowLink(e, u)
  ELSE With([s \in {soStoreSuperBlock(e)} |->
  IF s.rc # 0 THEN Ret(s, -ELIBBAD) ELSE Ret(s, 0)])])])])])

\* *p_nInodeDir is kept in dir and *p_nInodeEnt in ent
soTraversePath(st, ePath, u) ==
  With([a \in {soLoadSuperBlock(st)} |->
  IF a.rc # 0 THEN a
  ELSE IF Len(Basename(ePath)) > MAX_NAME THEN Ret(a, ENAMETOOLONG)
  ELSE With([t \in {IF Dirname(ePath) # Dot /\ Dirname(ePath) # Root
                    THEN With([x \in {soTraversePath(a, Dirname(ePath), Deeper(u))} |->
                         IF x.rc # 0 THEN x ELSE [x EXCEPT !.dir = x.ent]])
                    ELSE Ret(a, 0)} |->
  IF t.rc # 0 THEN t
  ELSE TraverseEntry([t EXCEPT !.dir = IF Dirname(ePath) = Dot THEN t.oldNInodeDir
                                       ELSE IF Dirname(ePath) = Root THEN 0 ELSE @],
                     IF Basename(ePath) = Root THEN Dot ELSE Basename(ePath), u)])])

soGetDirEntryByPath(st, ePath, u) ==
  IF ByteOf(ePath, 0) # Slash THEN Ret(st, -ERELPATH)
  ELSE IF Len(ePath) > MAX_PATH THEN Ret(st, ENAMETOOLONG)
  ELSE With([t \in {soTraversePath([st EXCEPT !.nSymLinks = 0, !.oldNInodeDir = 0],
                                   ePath, u)} |->
  IF t.rc # 0 THEN t
  ELSE [t EXCEPT !.dir = 0, !.ent = 0]])

(***************************************************************************)
(* The call of a function by its name                                      *)
(***************************************************************************)
Invoke(f, st, a) ==
  CASE f = "soDeplete" -> soDeplete(st)
    [] f = "soFreeDataCluster" -> soFreeDataCluster(st, a[1])
    [] f = "soReplenish" -> soReplenish(st)
    [] f = "soAllocDataCluster" -> soAllocDataCluster(st, a[1])
    [] f = "soReadInode" -> soReadInode(st, a[1], a[2], a[3])
    [] f = "soWriteInode" -> soWriteInode(st, a[1], a[2], a[3])
    [] f = "soCleanLogicalCluster" -> soCleanLogicalCluster(st, a[1], a[2])
    [] f = "soAttachLogicalCluster" -> soAttachLogicalCluster(st, a[1], a[2], a[3])
    [] f = "soHandleDirect" -> soHandleDirect(st, a[1], a[2], a[3], a[4])
    [] f = "soHandleSIndirect" -> soHandleSIndirect(st, a[1], a[2], a[3], a[4])
    [] f = "soHandleDIndirect" -> soHandleDIndirect(st, a[1], a[2], a[3], a[4])
    [] f = "soHandleFileCluster" -> soHandleFileCluster(st, a[1], a[2], a[3])
    [] f = "soCleanDataCluster" -> soCleanDataCluster(st, a[1], a[2])
    [] f = "soCleanInode" -> soCleanInode(st, a[1])
    [] f = "soAllocInode" -> soAllocInode(st, a[1])
    [] f = "soFreeInode" -> soFreeInode(st, a[1])
    [] f = "soHandleFileClusters" -> soHandleFileClusters(st, a[1], a[2], a[3])
    [] f = "soWriteFileCluster" -> soWriteFileCluster(st, a[1], a[2], a[3])
    [] f = "soReadFileCluster" -> soReadFileCluster(st, a[1], a[2])
    [] f = "soAccessGranted" -> soAccessGranted(st, a[1], a[2])
    [] f = "soGetDirEntryByName" -> soGetDirEntryByName(st, a[1], a[2])
    [] f = "soAddAttDirEntry" -> soAddAttDirEntry(st, a[1], a[2], a[3], a[4], a[5])
    [] f = "soRemDetachDirEntry" -> soRemDetachDirEntry(st, a[1], a[2], a[3])
    [] f = "soRenameDirEntry" -> soRenameDirEntry(st, a[1], a[2], a[3])
    [] f = "soGetDirEntryByPath" -> soGetDirEntryByPath(st, a[1], a[2])

(***************************************************************************)
(* The operations a client calls.  Each takes the input sets of the client *)
(* as a record I: F the transfers that may fail (0 for none), N inode      *)
(* numbers, C cluster numbers, K cluster indices, O sub-operations, T      *)
(* inode types, B cluster contents, M the number of calls of a run, R      *)
(* whether it hands soFreeDataCluster clusters that a file still refers    *)
(* to.                                                                     *)
(***************************************************************************)
AllocDataCluster(I) ==
  /\ nOps < I.M
  /\ \E f \in I.F, n \in I.N :
       \E r \in {Invoke("soAllocDataCluster", Cur(f), <<n>>)} :
       Done([op |-> "soAllocDataCluster", nInode |-> n, arg |-> 0, ind |-> 0, io |-> f], r,
            IF r.rc = 0 THEN r.nClust ELSE 0, I.M)

\* the clusters the content trees on the device refer to
Referenced ==
  UNION {TreeClusters(dZone, dInT[n]) : n \in Inodes} \cap Clusters

FreeDataCluster(I) ==
  /\ nOps < I.M
  /\ \E f \in I.F, c \in I.C :
       \E r \in {Invoke("soFreeDataCluster", Cur(f), <<c>>)} :
       Done([op |-> "soFreeDataCluster", nInode |-> 0, arg |-> c, ind |-> 0, io |-> f], r, 0, I.M)

AllocInode(I) ==
  /\ nOps < I.M
  /\ \E f \in I.F, t \in I.T :
       \E r \in {Invoke("soAllocInode", Cur(f), <<t>>)} :
       Done([op |-> "soAllocInode", nInode |-> 0, arg |-> t, ind |-> 0, io |-> f], r,
            IF r.rc = 0 THEN r.out ELSE 0, I.M)

FreeInode(I) ==
  /\ nOps < I.M
  /\ \E f \in I.F, n \in I.N :
       \E r \in {Invoke("soFreeInode", Cur(f), <<n>>)} :
       Done([op |-> "soFreeInode", nInode |-> n, arg |-> 0, ind |-> 0, io |-> f], r, 0, I.M)

CleanInode(I) ==
  /\ nOps < I.M
  /\ \E f \in I.F, n \in I.N :
       \E r \in {Invoke("soCleanInode", Cur(f), <<n>>)} :
       Done([op |-> "soCleanInode", nInode |-> n, arg |-> 0, ind |-> 0, io |-> f], r, 0, I.M)

HandleFileCluster(I) ==
  /\ nOps < I.M
  /\ \E f \in I.F, n \in I.N, k \in I.K, o \in I.O :
       \E r \in {Invoke("soHandleFileCluster", Cur(f), <<n, k, o>>)} :
       Done([op |-> "soHandleFileCluster", nInode |-> n, arg |-> o, ind |-> k, io |-> f], r,
            IF o \in {GET, ALLOC} /\ r.rc = 0 THEN r.out ELSE 0, I.M)

HandleFileClusters(I) ==
  /\ nOps < I.M
  /\ \E f \in I.F, n \in I.N, k \in I.KS, o \in I.O :
       \E r \in {Invoke("soHandleFileClusters", Cur(f), <<n, k, o>>)} :
       Done([op |-> "soHandleFileClusters", nInode |-> n, arg |-> o, ind |-> k, io |-> f], r,
            r.log, I.M)

CleanDataCluster(I) ==
  /\ nOps < I.M
  /\ \E f \in I.F, n \in I.N, c \in I.C :
       \E r \in {Invoke("soCleanDataCluster", Cur(f), <<n, c>>)} :
       Done([op |-> "soCleanDataCluster", nInode |-> n, arg |-> c, ind |-> 0, io |-> f], r, 0, I.M)

ReadFileCluster(I) ==
  /\ nOps < I.M
  /\ \E f \in I.F, n \in I.N, k \in I.K :
       \E r \in {Invoke("soReadFileCluster", Cur(f), <<n, k>>)} :
       Done([op |-> "soReadFileCluster", nInode |-> n, arg |-> 0, ind |-> k, io |-> f], r,
            IF r.rc = 0 THEN r.buf.ref ELSE 0, I.M)

WriteFileCluster(I) ==
  /\ nOps < I.M
  /\ \E f \in I.F, n \in I.N, k \in I.K, b \in I.B :
       \E r \in {Invoke("soWriteFileCluster", Cur(f), <<n, k, MkClust(0, 0, 0, b)>>)} :
       Done([op |-> "soWriteFileCluster", nInode |-> n, arg |-> 0, ind |-> k, io |-> f], r, 0, I.M)

(***************************************************************************)
(* The operations on directories.  E are the names, NE the inodes that     *)
(* entries are made for, D the operations, G the values that the variable  *)
(* idx of soAddAttDirEntry may hold before it is assigned, P the paths and *)
(* U what soQCheckInodeIU may answer for the unassigned variable inode of  *)
(* soTraversePath.                                                         *)
(***************************************************************************)
GetDirEntryByName(I) ==
  /\ nOps < I.M
  /\ \E f \in I.F, n \in I.N, e \in I.E :
       \E r \in {Invoke("soGetDirEntryByName", Cur(f), <<n, e>>)} :
       Done([op |-> "soGetDirEntryByName", nInode |-> n, arg |-> 0, ind |-> 0,
             io |-> f, name |-> e], r,
            IF r.rc = 0 THEN <<r.ent, r.idx>>
            ELSE IF r.rc = -ENOENT THEN <<r.idx>> ELSE 0, I.M)

GetDirEntryByPath(I) ==
  /\ nOps < I.M
  /\ \E f \in I.F, p \in I.P, u \in I.U :
       \E r \in {Invoke("soGetDirEntryByPath", Cur(f), <<p, u>>)} :
       Done([op |-> "soGetDirEntryByPath", nInode |-> 0, arg |-> Garbage(u), ind |-> 0,
             io |-> f, name |-> p], r,
            IF r.rc = 0 THEN <<r.dir, r.ent>> ELSE 0, I.M)

\* soTraversePath applied to the name of an entry of the directory n, with
\* oldNInodeDir = n and nSymLinks = 0: the function looks the last component
\* of a path with no slash up in oldNInodeDir; out is the sequence of the
\* paths it took from symbolic links
TraversePath(I) ==
  /\ nOps < I.M
  /\ \E f \in I.F, n \in I.N, e \in I.E, u \in I.U :
       \E r \in {soTraversePath([Cur(f) EXCEPT !.nSymLinks = 0, !.oldNInodeDir = n],
                                 e, u)} :
       Done([op |-> "soTraversePath", nInode |-> n, arg |-> Garbage(u), ind |-> 0,
             io |-> f, name |-> e], r, r.log, I.M)

AddAttDirEntry(I) ==
  /\ nOps < I.M
  /\ \E f \in I.F, n \in I.N, e \in I.E, m \in I.NE, o \in I.D, g \in I.G :
       \E r \in {Invoke("soAddAttDirEntry", Cur(f), <<n, e, m, o, g>>)} :
       Done([op |-> "soAddAttDirEntry", nInode |-> n, arg |-> o, ind |-> m,
             io |-> f, name |-> e], r, 0, I.M)

RemDetachDirEntry(I) ==
  /\ nOps < I.M
  /\ \E f \in I.F, n \in I.N, e \in I.E, o \in I.D :
       \E r \in {Invoke("soRemDetachDirEntry", Cur(f), <<n, e, o>>)} :
       Done([op |-> "soRemDetachDirEntry", nInode |-> n, arg |-> o, ind |-> 0,
             io |-> f, name |-> e], r, 0, I.M)

\* UID and GID are the user and the group of the calling process
AccessGranted(I) ==
  /\ nOps < I.M
  /\ \E f \in I.F, n \in I.N, o \in I.O, u \in I.UID, g \in I.GID :
       \E r \in {Invoke("soAccessGranted", [Cur(f) EXCEPT !.uid = u, !.gid = g],
                        <<n, o>>)} :
       Done([op |-> "soAccessGranted", nInode |-> n, arg |-> o, ind |-> 0,
             io |-> f, uid |-> u, gid |-> g], r, 0, I.M)

RenameDirEntry(I) ==
  /\ nOps < I.M
  /\ \E f \in I.F, n \in I.N, e \in I.E, t \in I.E :
       \E r \in {Invoke("soRenameDirEntry", Cur(f), <<n, e, t>>)} :
       Done([op |-> "soRenameDirEntry", nInode |-> n, arg |-> 0, ind |-> 0,
             io |-> f, name |-> e, newName |-> t], r, 0, I.M)

(***************************************************************************)
(* The functions of sofs_basicoper.c called one at a time: a load, a get   *)
(* followed by a write through the pointer it returned, or a store, on one *)
(* of the four storage areas.  The cluster and block numbers are valid     *)
(* ones unless the client holds others.                                     *)
(***************************************************************************)
SlotCall(o, a, f) == [op |-> o, nInode |-> 0, arg |-> a, ind |-> 0, io |-> f]

LoadSuperBlock(I) ==
  /\ nOps < I.M
  /\ \E f \in I.F :
       \E r \in {soLoadSuperBlock(Cur(f))} :
       Done(SlotCall("soLoadSuperBlock", 0, f), r, 0, I.M)

\* the client sets dZoneFree in the storage area when the pointer is not NULL
GetSuperBlock(I) ==
  /\ nOps < I.M
  /\ \E v \in I.V :
       \E r \in {IF soGetSuperBlock(Cur(0))
                 THEN [Cur(0) EXCEPT !.sb.dZoneFree = v] ELSE Cur(0)} :
       Done(SlotCall("soGetSuperBlock", v, 0), r,
            IF soGetSuperBlock(Cur(0)) THEN 1 ELSE 0, I.M)

StoreSuperBlock(I) ==
  /\ nOps < I.M
  /\ \E f \in I.F :
       \E r \in {soStoreSuperBlock(Cur(f))} :
       Done(SlotCall("soStoreSuperBlock", 0, f), r, 0, I.M)

LoadBlockInT(I) ==
  /\ nOps < I.M
  /\ \E f \in I.F, b \in I.BL :
       \E r \in {soLoadBlockInT(Cur(f), b)} :
       Done(SlotCall("soLoadBlockInT", b, f), r, 0, I.M)

\* the client sets the size of the first inode of the block
GetBlockInT(I) ==
  /\ nOps < I.M
  /\ \E v \in I.V :
       \E r \in {IF soGetBlockInT(Cur(0))
                 THEN [Cur(0) EXCEPT !.inode[0].size = v] ELSE Cur(0)} :
       Done(SlotCall("soGetBlockInT", v, 0), r,
            IF soGetBlockInT(Cur(0)) THEN 1 ELSE 0, I.M)

StoreBlockInT(I) ==
  /\ nOps < I.M
  /\ \E f \in I.F :
       \E r \in {soStoreBlockInT(Cur(f))} :
       Done(SlotCall("soStoreBlockInT", 0, f), r, 0, I.M)

LoadSngIndRefClust(I) ==
  /\ nOps < I.M
  /\ \E f \in I.F, c \in I.PC :
       \E r \in {soLoadSngIndRefClust(Cur(f), c)} :
       Done(SlotCall("soLoadSngIndRefClust", c, f), r, 0, I.M)

\* the client sets the first reference of the cluster
GetSngIndRefClust(I) ==
  /\ nOps < I.M
  /\ \E v \in I.V :
       \E r \in {IF soGetSngIndRefClust(Cur(0))
                 THEN [Cur(0) EXCEPT !.sngIndRefClust.ref[0] = v] ELSE Cur(0)} :
       Done(SlotCall("soGetSngIndRefClust", v, 0), r,
            IF soGetSngIndRefClust(Cur(0)) THEN 1 ELSE 0, I.M)

StoreSngIndRefClust(I) ==
  /\ nOps < I.M
  /\ \E f \in I.F :
       \E r \in {soStoreSngIndRefClust(Cur(f))} :
       Done(SlotCall("soStoreSngIndRefClust", 0, f), r, 0, I.M)

LoadDirRefClust(I) ==
  /\ nOps < I.M
  /\ \E f \in I.F, c \in I.PC :
       \E r \in {soLoadDirRefClust(Cur(f), c)} :
       Done(SlotCall("soLoadDirRefClust", c, f), r, 0, I.M)

\* the client sets the first reference of the cluster
GetDirRefClust(I) ==
  /\ nOps < I.M
  /\ \E v \in I.V :
       \E r \in {IF soGetDirRefClust(Cur(0))
                 THEN [Cur(0) EXCEPT !.dirRefClust.ref[0] = v] ELSE Cur(0)} :
       Done(SlotCall("soGetDirRefClust", v, 0), r,
            IF soGetDirRefClust(Cur(0)) THEN 1 ELSE 0, I.M)

StoreDirRefClust(I) ==
  /\ nOps < I.M
  /\ \E f \in I.F :
       \E r \in {soStoreDirRefClust(Cur(f))} :
       Done(SlotCall("soStoreDirRefClust", 0, f), r, 0, I.M)

(***************************************************************************)
(* mkfs_sofs14.c: the image the formatting program writes.  The superblock *)
(* is FormattedSuperBlock.  fillInGenRep writes its local variable c,      *)
(* which it never initialises outside prev and next: the stat and the body *)
(* of each cluster are what the stack holds, g below.  In zero mode it     *)
(* writes every cluster a second time after memset(&c, 0, BSLPC), which    *)
(* clears prev, next and stat as well.                                     *)
(***************************************************************************)
\* what the stack may hold where fillInGenRep has c: the cluster fillInRootDir
\* built in its own local variable, or nothing but stat = NULL_INODE, or zeros
StackGarbage ==
  {[stat |-> 0, de |-> EmptyDir(0, 0)],
   [stat |-> NULL_INODE, de |-> ZeroDir],
   [stat |-> 0, de |-> ZeroDir]}

fillInINT ==
  [n \in Inodes |->
     IF n = 0
     THEN [MkInode(INODE_DIR + 511, 1, 0, 0, [NullDirect EXCEPT ![0] = dZoneStart],
                   NULL_CLUSTER, NULL_CLUSTER)
             EXCEPT !.refCount = 2, !.size = DPC * DirEntrySize]
     ELSE MkInode(INODE_FREE, 0,
                  IF n = iTotal - 1 THEN NULL_INODE ELSE n + 1,
                  IF n = 1 THEN NULL_INODE
                  ELSE ((IF n = iTotal - 1 THEN NULL_INODE ELSE n + 1) + U32 - 2) % U32,
                  NullDirect, NULL_CLUSTER, NULL_CLUSTER)]

\* the cluster written at block dZoneStart
fillInRootDir(dz) ==
  [dz EXCEPT ![0] = DeView(MkClust(NULL_CLUSTER, NULL_CLUSTER, 0, ZeroRefs), EmptyDir(0, 0))]

\* prev and next of the cluster written at block i
GenRepLinks(i) ==
  IF i = dZoneStart + BLOCKS_PER_CLUSTER
  THEN [prev |-> NULL_CLUSTER, next |-> (i + BLOCKS_PER_CLUSTER) % U32]
  ELSE IF /\ i > dZoneStart + BLOCKS_PER_CLUSTER
          /\ i < (dZoneStart + (dZoneTotal + U32 - 1 * BLOCKS_PER_CLUSTER)) % U32
  THEN [prev |-> i - BLOCKS_PER_CLUSTER, next |-> (i + BLOCKS_PER_CLUSTER) % U32]
  ELSE [prev |-> i - BLOCKS_PER_CLUSTER, next |-> NULL_CLUSTER]

fillInGenRep(dz, zero, g) ==
  [c \in Clusters |->
     IF c = 0 THEN dz[0]
     ELSE IF zero = 1 THEN ZeroClust
     ELSE DeView(MkClust(GenRepLinks(Phys(c)).prev, GenRepLinks(Phys(c)).next,
                         g.stat, ZeroRefs), g.de)]

checkFSConsist(st) ==
  IF soQCheckSuperBlock(st) # 0 THEN soQCheckSuperBlock(st)
  ELSE IF soQCheckInodeIU(st, st.dInT[0]) # 0 THEN soQCheckInodeIU(st, st.dInT[0])
  ELSE soQCheckDirCont(st, st.dInT[0])

\* the device after main has run, and the storage areas of the process that
\* uses the device next; rc is what checkFSConsist answers
mkfs_sofs14(st, zero, g) ==
  With([t \in {[st EXCEPT !.sb = FormattedSuperBlock,
                          !.dSb = FormattedSuperBlock,
                          !.dInT = fillInINT,
                          !.dZone = fillInGenRep(fillInRootDir(st.dZone), zero, g)]} |->
  [t EXCEPT !.sb = ZeroSuperBlock, !.sbLoaded = 0, !.sbError = 0,
            !.inode = [o \in 0 .. (IPB - 1) |-> ZeroInode],
            !.nBlkInTLoaded = -1, !.intError = 0,
            !.sngIndRefClust = ZeroClust, !.nClustSIRef = 0, !.sircError = 0,
            !.dirRefClust = ZeroClust, !.nClustDRef = 0, !.drcError = 0,
            !.rc = checkFSConsist(t)]])

\* the device is formatted, in zero mode or not
MkfsSofs14(I) ==
  /\ nOps < I.M
  /\ \E z \in I.Z, g \in I.GB :
       \E r \in {mkfs_sofs14(Cur(0), z, g)} :
       Done([op |-> "mkfs_sofs14", nInode |-> 0, arg |-> z, ind |-> 0, io |-> 0], r, 0, I.M)

(***************************************************************************)
(* A client of the whole interface, every argument in and just out of      *)
(* range, no transfer failing.                                             *)
(***************************************************************************)
AnyClient ==
  [F |-> {0}, N |-> Inodes, C |-> 0 .. dZoneTotal, K |-> 0 .. MAX_FILE_CLUSTERS,
   O |-> 0 .. 4, T |-> {0, INODE_DIR, INODE_FILE},
   B |-> {ZeroRefs, [i \in RefIdx |-> 1]}, M |-> MaxOps,
   KS |-> 0 .. MAX_FILE_CLUSTERS,
   E |-> {Dot, <<97>>}, NE |-> Inodes, D |-> 0 .. 2, G |-> {0, DPC},
   P |-> {Root, <<Slash, 97>>, <<97>>}, U |-> {<<0, 0>>, <<>>},
   UID |-> {0, 1}, GID |-> {0},
   PC |-> {0, Phys(1)}, BL |-> 0 .. iTableSize, V |-> {1},
   Z |-> {0, 1}, GB |-> StackGarbage]

Next ==
  \/ AllocDataCluster(AnyClient)
  \/ FreeDataCluster(AnyClient)
  \/ AllocInode(AnyClient)
  \/ FreeInode(AnyClient)
  \/ CleanInode(AnyClient)
  \/ HandleFileCluster(AnyClient)
  \/ HandleFileClusters(AnyClient)
  \/ CleanDataCluster(AnyClient)
  \/ ReadFileCluster(AnyClient)
  \/ WriteFileCluster(AnyClient)
  \/ GetDirEntryByName(AnyClient)
  \/ GetDirEntryByPath(AnyClient)
  \/ AddAttDirEntry(AnyClient)
  \/ RemDetachDirEntry(AnyClient)
  \/ RenameDirEntry(AnyClient)
  \/ AccessGranted(AnyClient)
  \/ LoadSuperBlock(AnyClient)
  \/ GetSuperBlock(AnyClient)
  \/ StoreSuperBlock(AnyClient)
  \/ LoadBlockInT(AnyClient)
  \/ GetBlockInT(AnyClient)
  \/ StoreBlockInT(AnyClient)
  \/ LoadSngIndRefClust(AnyClient)
  \/ GetSngIndRefClust(AnyClient)
  \/ StoreSngIndRefClust(AnyClient)
  \/ LoadDirRefClust(AnyClient)
  \/ GetDirRefClust(AnyClient)
  \/ StoreDirRefClust(AnyClient)
  \/ TraversePath(AnyClient)
  \/ MkfsSofs14(AnyClient)

Spec == Init /\ [][Next]_vars

(***************************************************************************)
(* A client of the inode allocator: it allocates, frees and cleans inodes  *)
(* and gives the files it allocated a first data cluster and frees it.     *)
(***************************************************************************)
InodeClient ==
  [F |-> {0}, N |-> Inodes, C |-> {}, K |-> {0}, O |-> {ALLOC, FREE, FREE_CLEAN},
   T |-> {0, INODE_FILE}, B |-> {}, M |-> MaxInodeOps,
   KS |-> {}]

NextInode ==
  \/ AllocInode(InodeClient)
  \/ FreeInode(InodeClient)
  \/ CleanInode(InodeClient)
  \/ HandleFileCluster(InodeClient)

SpecInode == Init /\ [][NextInode]_vars

(***************************************************************************)
(* A client of soAllocDataCluster and soFreeDataCluster alone: it          *)
(* allocates clusters for the root directory's inode and frees clusters,   *)
(* whatever their state.                                                   *)
(***************************************************************************)
AllocClient ==
  [F |-> {0}, N |-> {0}, C |-> 0 .. dZoneTotal, K |-> {}, O |-> {},
   T |-> {}, B |-> {}, M |-> MaxAllocOps,
   KS |-> {}]

NextAlloc ==
  \/ AllocDataCluster(AllocClient)
  \/ FreeDataCluster(AllocClient)

SpecAlloc == Init /\ [][NextAlloc]_vars

(***************************************************************************)
(* A client of the root directory's content: it allocates, frees and frees *)
(* and cleans the clusters at the last direct position and at the first    *)
(* two single indirect positions.                                          *)
(***************************************************************************)
RefClient ==
  [F |-> {0}, N |-> {0}, C |-> {}, K |-> {N_DIRECT - 1, N_DIRECT, N_DIRECT + 1},
   O |-> {ALLOC, FREE, FREE_CLEAN}, T |-> {}, B |-> {}, M |-> MaxRefOps,
   KS |-> {}]

NextRefs == HandleFileCluster(RefClient)

SpecRefs == Init /\ [][NextRefs]_vars

(***************************************************************************)
(* A client whose device fails: of each operation no transfer, the first,  *)
(* the second, ... or the MaxIO-th transfer fails.  It allocates and frees *)
(* clusters and allocates, frees and cleans the clusters at the last       *)
(* direct and the first single indirect position of the root directory.    *)
(***************************************************************************)
FaultClient ==
  [F |-> 0 .. MaxIO, N |-> {0}, C |-> Clusters, K |-> {N_DIRECT - 1, N_DIRECT},
   O |-> {ALLOC, FREE_CLEAN}, T |-> {}, B |-> {}, M |-> MaxFaultOps,
   KS |-> {}]

NextFault ==
  \/ AllocDataCluster(FaultClient)
  \/ FreeDataCluster(FaultClient)
  \/ HandleFileCluster(FaultClient)

SpecFault == Init /\ [][NextFault]_vars

(***************************************************************************)
(* A client of the content trees of the root directory and of the first    *)
(* file: it allocates and frees inodes and allocates, frees, cleans and    *)
(* writes clusters at the first direct, the first single indirect and the  *)
(* first double indirect position.                                         *)
(***************************************************************************)
TreeClient ==
  [F |-> {0}, N |-> 0 .. 1, C |-> {}, K |-> {0, N_DIRECT, N_DIRECT + RPC},
   O |-> {ALLOC, FREE, FREE_CLEAN, CLEAN}, T |-> {INODE_FILE},
   B |-> {[i \in RefIdx |-> 1]}, M |-> MaxTreeOps,
   KS |-> {0}]

NextTree ==
  \/ AllocInode(TreeClient)
  \/ FreeInode(TreeClient)
  \/ CleanInode(TreeClient)
  \/ HandleFileCluster(TreeClient)
  \/ HandleFileClusters(TreeClient)
  \/ WriteFileCluster(TreeClient)

SpecTree == Init /\ [][NextTree]_vars

(***************************************************************************)
(* A client that grows and prunes the reference tree of the root          *)
(* directory: two indices of the single indirect list, two indices under  *)
(* the first cluster of the double indirect list and one under the second *)
(***************************************************************************)
CollapseClient ==
  [F |-> {0}, N |-> {0}, C |-> {},
   K |-> {N_DIRECT, N_DIRECT + 1, N_DIRECT + RPC, N_DIRECT + RPC + 1, N_DIRECT + (2 * RPC)},
   O |-> {ALLOC, FREE_CLEAN}, T |-> {}, B |-> {}, M |-> MaxCollapseOps, KS |-> {}]

NextCollapse == HandleFileCluster(CollapseClient)

SpecCollapse == Init /\ [][NextCollapse]_vars

(***************************************************************************)
(* A client that grows the reference tree of the root directory in all    *)
(* three regions and truncates it from any index                          *)
(***************************************************************************)
GrowClient ==
  [F |-> {0}, N |-> {0}, C |-> {},
   K |-> {N_DIRECT - 1, N_DIRECT, N_DIRECT + 1,
          N_DIRECT + RPC, N_DIRECT + RPC + 1, N_DIRECT + (2 * RPC)},
   O |-> {ALLOC}, T |-> {}, B |-> {}, M |-> MaxTruncateOps, KS |-> {}]

TruncateClient ==
  [F |-> {0}, N |-> {0}, C |-> {}, K |-> {}, O |-> {FREE_CLEAN}, T |-> {}, B |-> {},
   M |-> MaxTruncateOps, KS |-> 0 .. (MAX_FILE_CLUSTERS - 1)]

NextTruncate ==
  \/ HandleFileCluster(GrowClient)
  \/ HandleFileClusters(TruncateClient)

SpecTruncate == Init /\ [][NextTruncate]_vars

(***************************************************************************)
(* A client of the directories of the volume that holds d and s: it makes  *)
(* entries in d for a new inode and for s, removes and detaches them,      *)
(* looks names up in d and gives the file of the new inode a cluster that  *)
(* needs the single indirect references.                                   *)
(***************************************************************************)
NameA == <<97>>
NameB == <<98>>

DirClient ==
  [F |-> {0}, N |-> {2}, E |-> {NameA, NameB}, NE |-> {1, 3}, D |-> {ADD, ATTACH},
   G |-> {0}, T |-> {INODE_FILE, INODE_DIR}, K |-> {N_DIRECT}, O |-> {ALLOC},
   C |-> {}, B |-> {}, KS |-> {}, P |-> {}, U |-> {}, M |-> MaxDirOps]

NextDir ==
  \/ AllocInode(DirClient)
  \/ AddAttDirEntry(DirClient)
  \/ RemDetachDirEntry(DirClient)
  \/ GetDirEntryByName(DirClient)
  \/ HandleFileCluster([DirClient EXCEPT !.N = {1}])

SpecDir == InitDir /\ [][NextDir]_vars

(***************************************************************************)
(* A client that makes entries in d, detaches them and renames them, to    *)
(* names that a directory may hold and to one with a slash in it.          *)
(***************************************************************************)
NameAB == <<97, Slash, 98>>

RenameClient ==
  [F |-> {0}, N |-> {2}, E |-> {NameA, NameB, NameAB}, NE |-> {1, 3},
   D |-> {ADD, ATTACH}, G |-> {0}, T |-> {INODE_FILE}, K |-> {}, O |-> {},
   C |-> {}, B |-> {}, KS |-> {}, P |-> {}, U |-> {}, M |-> MaxRenameOps]

NextRename ==
  \/ AllocInode(RenameClient)
  \/ AddAttDirEntry(RenameClient)
  \/ RemDetachDirEntry(RenameClient)
  \/ RenameDirEntry(RenameClient)

SpecRename == InitDir /\ [][NextRename]_vars

(***************************************************************************)
(* A client that makes hard links in d to one file, under more names than  *)
(* refCount can count.                                                     *)
(***************************************************************************)
LinkClient ==
  [F |-> {0}, N |-> {2}, E |-> {<<96 + k>> : k \in 1 .. (REFCOUNT_MAX + 1)},
   NE |-> {1}, D |-> {ADD}, G |-> {0}, T |-> {INODE_FILE}, K |-> {}, O |-> {},
   C |-> {}, B |-> {}, KS |-> {}, P |-> {}, U |-> {}, M |-> REFCOUNT_MAX + 2]

NextLink ==
  \/ AllocInode(LinkClient)
  \/ AddAttDirEntry(LinkClient)

SpecLink == InitDir /\ [][NextLink]_vars

(***************************************************************************)
(* A client of the volume with the symbolic links: it resolves paths that  *)
(* end in a link, pass through one link and pass through two, looks names  *)
(* up in the root and in d and renames the entries of d.                   *)
(***************************************************************************)
SymClient ==
  [F |-> {0}, N |-> {0, 2}, E |-> {NameL, NameM, NameA}, NE |-> {}, D |-> {},
   G |-> {}, T |-> {}, K |-> {}, O |-> {}, C |-> {}, B |-> {}, KS |-> {},
   P |-> {PathD, PathDL, PathDM, PathDL \o <<Slash>> \o Dot,
          PathDM \o <<Slash>> \o Dot},
   U |-> {<<0, 0, 0, 0, 0, 0>>, <<>>}, M |-> MaxSymOps]

NextSym ==
  \/ GetDirEntryByPath(SymClient)
  \/ GetDirEntryByName(SymClient)
  \/ RenameDirEntry(SymClient)

SpecSym == InitSym /\ [][NextSym]_vars

(***************************************************************************)
(* A client that allocates the first file and gives it clusters at         *)
(* neighbouring positions: the first two direct ones, the last direct and  *)
(* the first single indirect one, the last single indirect and the first   *)
(* double indirect one, and the last two of the file; it also writes the   *)
(* clusters.                                                               *)
(***************************************************************************)
ChainClient ==
  [F |-> {0}, N |-> {1}, C |-> {},
   K |-> {0, N_DIRECT - 1, N_DIRECT, N_DIRECT + RPC - 1, N_DIRECT + RPC,
          MAX_FILE_CLUSTERS - 2, MAX_FILE_CLUSTERS - 1},
   O |-> {ALLOC}, T |-> {INODE_FILE}, B |-> {[i \in RefIdx |-> 1]},
   M |-> MaxChainOps, KS |-> {}]

NextChain ==
  \/ AllocInode(ChainClient)
  \/ HandleFileCluster(ChainClient)
  \/ WriteFileCluster(ChainClient)

SpecChain == Init /\ [][NextChain]_vars

(***************************************************************************)
(* A client of the content of the root directory that allocates, and frees *)
(* and cleans, the cluster at every position of the file, so that the      *)
(* neighbours of a new cluster lie in the same band or in the next one.    *)
(***************************************************************************)
BandClient ==
  [F |-> {0}, N |-> {0}, C |-> {}, K |-> 0 .. (MAX_FILE_CLUSTERS - 1),
   O |-> {ALLOC, FREE_CLEAN}, T |-> {}, B |-> {}, M |-> MaxBandOps, KS |-> {}]

NextBand == HandleFileCluster(BandClient)

SpecBand == Init /\ [][NextBand]_vars

(***************************************************************************)
(* A client of the three storage areas for inodes and references: it loads *)
(* two blocks of the table of inodes and two clusters, changes what is     *)
(* resident and stores it.                                                  *)
(***************************************************************************)
SlotClient ==
  [F |-> {0}, PC |-> {Phys(1), Phys(2)}, BL |-> {0, 1}, V |-> {1}, M |-> MaxSlotOps]

NextSlot ==
  \/ LoadBlockInT(SlotClient)
  \/ GetBlockInT(SlotClient)
  \/ StoreBlockInT(SlotClient)
  \/ LoadSngIndRefClust(SlotClient)
  \/ GetSngIndRefClust(SlotClient)
  \/ StoreSngIndRefClust(SlotClient)
  \/ LoadDirRefClust(SlotClient)
  \/ GetDirRefClust(SlotClient)
  \/ StoreDirRefClust(SlotClient)

SpecSlot == Init /\ [][NextSlot]_vars

(***************************************************************************)
(* A client that loads clusters into the two storage areas for references, *)
(* changes and stores them, and in between allocates clusters for the root *)
(* directory's inode and frees them: soAllocDataCluster and                 *)
(* soFreeDataCluster write the headers of the clusters past the storage    *)
(* areas.                                                                   *)
(***************************************************************************)
StaleClient ==
  [F |-> {0}, N |-> {0}, C |-> {1, 2}, PC |-> {Phys(1), Phys(2)}, V |-> {1},
   M |-> MaxStaleOps]

NextStale ==
  \/ AllocDataCluster(StaleClient)
  \/ FreeDataCluster(StaleClient)
  \/ LoadSngIndRefClust(StaleClient)
  \/ GetSngIndRefClust(StaleClient)
  \/ StoreSngIndRefClust(StaleClient)
  \/ LoadDirRefClust(StaleClient)
  \/ GetDirRefClust(StaleClient)
  \/ StoreDirRefClust(StaleClient)

SpecStale == Init /\ [][NextStale]_vars

(***************************************************************************)
(* A client of the four storage areas of sofs_basicoper.c with transfers   *)
(* that fail: it loads, gets and stores the superblock, a block of the     *)
(* table of inodes and a cluster in each of the two areas for references,  *)
(* with arguments in range and out of range.                               *)
(***************************************************************************)
StickyClient ==
  [F |-> {0, 1, 2}, PC |-> {0, Phys(1)}, BL |-> {0, iTableSize}, V |-> {1},
   M |-> MaxStickyOps]

NextSticky ==
  \/ LoadSuperBlock(StickyClient)
  \/ GetSuperBlock(StickyClient)
  \/ StoreSuperBlock(StickyClient)
  \/ LoadBlockInT(StickyClient)
  \/ GetBlockInT(StickyClient)
  \/ StoreBlockInT(StickyClient)
  \/ LoadSngIndRefClust(StickyClient)
  \/ GetSngIndRefClust(StickyClient)
  \/ StoreSngIndRefClust(StickyClient)
  \/ LoadDirRefClust(StickyClient)
  \/ GetDirRefClust(StickyClient)
  \/ StoreDirRefClust(StickyClient)

SpecSticky == Init /\ [][NextSticky]_vars

(***************************************************************************)
(* A client on the volume with the symbolic links that gives the links l   *)
(* and m further names in d, which fill the second cluster of d, and has   *)
(* names of d and paths traversed.  soGetDirEntryByPath leaves the root    *)
(* with no path (soReadFileCluster rejects inode 0), so the client also    *)
(* applies soTraversePath to the names in d.                               *)
(***************************************************************************)
FarClient ==
  [F |-> {0}, N |-> {2}, E |-> {NameL, NameM, NameA, NameB}, NE |-> {1, 3},
   D |-> {ADD}, G |-> {0}, P |-> {PathDL, PathD \o <<Slash>> \o NameA},
   U |-> {<<0, 0, 0, 0, 0, 0>>}, M |-> MaxFarOps]

NextFar ==
  \/ AddAttDirEntry(FarClient)
  \/ TraversePath(FarClient)
  \/ GetDirEntryByPath(FarClient)

SpecFar == InitSym /\ [][NextFar]_vars

(***************************************************************************)
(* A client that formats the device, at any moment and in both modes, and  *)
(* allocates and frees inodes and data clusters before and after.          *)
(***************************************************************************)
MkfsClient ==
  [F |-> {0}, N |-> {0, 1}, C |-> {1, 2}, T |-> {INODE_FILE}, Z |-> {0, 1},
   GB |-> StackGarbage, M |-> MaxMkfsOps]

NextMkfs ==
  \/ MkfsSofs14(MkfsClient)
  \/ AllocInode(MkfsClient)
  \/ FreeInode(MkfsClient)
  \/ AllocDataCluster(MkfsClient)
  \/ FreeDataCluster(MkfsClient)

SpecMkfs == Init /\ [][NextMkfs]_vars

(***************************************************************************)
(* A client that allocates files and reads and writes their first cluster  *)
(* and last cluster, those of the root directory and those of the inode    *)
(* and the position past the last: the inodes are the first and the second *)
(* of their block of the table of inodes.                                   *)
(***************************************************************************)
FrameClient ==
  [F |-> {0}, N |-> 0 .. iTotal, K |-> {0, MAX_FILE_CLUSTERS - 1, MAX_FILE_CLUSTERS},
   T |-> {INODE_FILE}, B |-> {[i \in RefIdx |-> 1]}, M |-> MaxFrameOps]

NextFrame ==
  \/ AllocInode(FrameClient)
  \/ ReadFileCluster(FrameClient)
  \/ WriteFileCluster(FrameClient)

SpecFrame == Init /\ [][NextFrame]_vars

(***************************************************************************)
(* A client that allocates inodes of the three types, of no type, of two   *)
(* types at once and of a type with a permission bit or the free flag      *)
(* beside it, and frees inodes.                                            *)
(***************************************************************************)
TypeClient ==
  [F |-> {0}, N |-> Inodes, C |-> {}, K |-> {}, O |-> {},
   T |-> {0, INODE_DIR, INODE_FILE, INODE_SYMLINK, INODE_DIR + INODE_FILE,
          INODE_FILE + INODE_EX_OTH, INODE_FILE + INODE_FREE, INODE_FREE},
   B |-> {}, M |-> MaxTypeOps, KS |-> {}]

NextType ==
  \/ AllocInode(TypeClient)
  \/ FreeInode(TypeClient)

SpecType == Init /\ [][NextType]_vars

(***************************************************************************)
(* A client that allocates the first file and asks for the clusters of the *)
(* root directory and of the file, and allocates them, at the first        *)
(* direct, single indirect and double indirect position and past the last. *)
(***************************************************************************)
GetClient ==
  [F |-> {0}, N |-> 0 .. 1, C |-> {},
   K |-> {0, N_DIRECT, N_DIRECT + RPC, MAX_FILE_CLUSTERS},
   O |-> {GET, ALLOC}, T |-> {INODE_FILE}, B |-> {}, M |-> MaxGetOps, KS |-> {}]

NextGet ==
  \/ AllocInode(GetClient)
  \/ HandleFileCluster(GetClient)

SpecGet == Init /\ [][NextGet]_vars

(***************************************************************************)
(* The volume that holds d and s after a file was made and d was given the *)
(* entries a, b, c of the file and the entries e, f of s: one entry short  *)
(* of two full clusters.  The client makes more entries in d, which then   *)
(* needs a cluster of single indirect references, looks names up and       *)
(* renames entries.                                                        *)
(***************************************************************************)
NameC == <<99>>
NameE == <<101>>
NameF == <<102>>
NameG == <<103>>
NameH == <<104>>

\* the machine state before a call, the volume being the one of InitDir
StDir ==
  [sb |-> ZeroSuperBlock, sbLoaded |-> 0, sbError |-> 0,
   inode |-> [o \in 0 .. (IPB - 1) |-> ZeroInode],
   nBlkInTLoaded |-> -1, intError |-> 0,
   sngIndRefClust |-> ZeroClust, nClustSIRef |-> 0,
   sircError |-> 0, dirRefClust |-> ZeroClust, nClustDRef |-> 0,
   drcError |-> 0, dSb |-> DirSuperBlock, dInT |-> DirInT, dZone |-> DirDZone,
   io |-> 0, rc |-> 0, out |-> 0, cnv |-> <<0, 0>>, pstat |-> 0,
   nClust |-> 0, buf |-> ZeroClust, ent |-> 0, idx |-> 0, dir |-> 0,
   nSymLinks |-> 0, oldNInodeDir |-> 0, uid |-> 0, gid |-> 0, log |-> <<>>,
   wlog |-> <<>>,
   ino |-> ZeroInode]

\* the machine state before the next call, after a call that left st
Again(st) ==
  [st EXCEPT !.io = 0, !.rc = 0, !.out = 0, !.cnv = <<0, 0>>, !.pstat = 0,
             !.nClust = 0, !.buf = ZeroClust, !.ent = 0, !.idx = 0, !.dir = 0,
             !.nSymLinks = 0, !.oldNInodeDir = 0, !.ino = ZeroInode, !.log = <<>>,
             !.wlog = <<>>]

\* the machine state after the calls cs, each a function and its arguments,
\* made one after the other from st
RECURSIVE RunCalls(_, _)
RunCalls(st, cs) ==
  IF cs = <<>> THEN st
  ELSE RunCalls(Invoke(Head(cs)[1], Again(st), Head(cs)[2]), Tail(cs))

FillCalls ==
  <<<<"soAllocInode", <<INODE_FILE>>>>,
    <<"soAddAttDirEntry", <<2, NameA, 1, ADD, 0>>>>,
    <<"soAddAttDirEntry", <<2, NameB, 1, ADD, 0>>>>,
    <<"soAddAttDirEntry", <<2, NameC, 1, ADD, 0>>>>,
    <<"soAddAttDirEntry", <<2, NameE, 3, ADD, 0>>>>,
    <<"soAddAttDirEntry", <<2, NameF, 3, ADD, 0>>>>>>

InitFill ==
  /\ \E g \in {RunCalls(StDir, FillCalls)} :
       /\ sb = g.sb
       /\ sbLoaded = g.sbLoaded
       /\ sbError = g.sbError
       /\ inode = g.inode
       /\ nBlkInTLoaded = g.nBlkInTLoaded
       /\ intError = g.intError
       /\ sngIndRefClust = g.sngIndRefClust
       /\ nClustSIRef = g.nClustSIRef
       /\ sircError = g.sircError
       /\ dirRefClust = g.dirRefClust
       /\ nClustDRef = g.nClustDRef
       /\ drcError = g.drcError
       /\ dSb = g.dSb
       /\ dInT = g.dInT
       /\ dZone = g.dZone
  /\ call = [op |-> "none", nInode |-> 0, arg |-> 0, ind |-> 0, io |-> 0]
  /\ res = [rc |-> 0, out |-> 0, io |-> 0]
  /\ nOps = 0

FillClient ==
  [F |-> {0}, N |-> {2}, E |-> {NameG, NameH}, NE |-> {1, 3}, D |-> {ADD, ATTACH},
   G |-> {0}, T |-> {}, K |-> {}, O |-> {}, C |-> {}, B |-> {}, KS |-> {},
   P |-> {}, U |-> {}, M |-> MaxFillOps]

NextFill ==
  \/ AddAttDirEntry(FillClient)
  \/ GetDirEntryByName(FillClient)
  \/ RenameDirEntry(FillClient)

SpecFill == InitFill /\ [][NextFill]_vars

(***************************************************************************)
(* A volume like the one that holds d and s, where inode 1 is a file of    *)
(* any of the permissions Perms, owned by one of two users and one of two  *)
(* groups, and the callers that ask for access to it: the superuser and    *)
(* the two users, in either group, for every combination of operations and *)
(* for the two values next to them.                                        *)
(***************************************************************************)
PermBits ==
  {INODE_RD_USR, INODE_WR_USR, INODE_EX_USR, INODE_RD_GRP, INODE_WR_GRP,
   INODE_EX_GRP, INODE_RD_OTH, INODE_WR_OTH, INODE_EX_OTH}

Perms == {0, 511} \cup PermBits \cup {511 - b : b \in PermBits}

InitAccess ==
  /\ sb = ZeroSuperBlock
  /\ sbLoaded = 0
  /\ sbError = 0
  /\ inode = [o \in 0 .. (IPB - 1) |-> ZeroInode]
  /\ nBlkInTLoaded = -1
  /\ intError = 0
  /\ sngIndRefClust = ZeroClust
  /\ nClustSIRef = 0
  /\ sircError = 0
  /\ dirRefClust = ZeroClust
  /\ nClustDRef = 0
  /\ drcError = 0
  /\ dSb = [DirSuperBlock EXCEPT !.iFree = 0, !.iHead = NULL_INODE,
                                 !.iTail = NULL_INODE]
  /\ \E p \in Perms, o \in 1 .. 2, g \in 1 .. 2 :
       dInT = [DirInT EXCEPT ![1] =
                 [MkInode(INODE_FILE + p, 0, 0, 0, NullDirect, NULL_CLUSTER,
                          NULL_CLUSTER) EXCEPT !.owner = o, !.group = g]]
  /\ dZone = DirDZone
  /\ call = [op |-> "none", nInode |-> 0, arg |-> 0, ind |-> 0, io |-> 0]
  /\ res = [rc |-> 0, out |-> 0, io |-> 0]
  /\ nOps = 0

AccessClient ==
  [F |-> {0}, N |-> {1}, O |-> 0 .. (R + W + X + 1), UID |-> 0 .. 2, GID |-> 1 .. 2,
   M |-> MaxAccessOps]

NextAccess == AccessGranted(AccessClient)

SpecAccess == InitAccess /\ [][NextAccess]_vars

(***************************************************************************)
(* A client of the freshly formatted volume that looks names and paths up, *)
(* allocates inodes and asks for entries in the root and in a new          *)
(* directory.                                                              *)
(***************************************************************************)
LookupClient ==
  [F |-> {0}, N |-> {0, 1}, E |-> {Dot, NameA}, NE |-> {1}, D |-> {ADD},
   G |-> {0, DPC}, T |-> {INODE_FILE, INODE_DIR}, K |-> {}, O |-> {},
   C |-> {}, B |-> {}, KS |-> {},
   P |-> {Root, <<Slash, 97>>, <<Slash, 97, Slash, 98>>, NameA},
   U |-> {<<0, 0>>, <<>>}, M |-> MaxLookupOps]

NextLookup ==
  \/ GetDirEntryByName(LookupClient)
  \/ GetDirEntryByPath(LookupClient)
  \/ AllocInode(LookupClient)
  \/ AddAttDirEntry(LookupClient)

SpecLookup == Init /\ [][NextLookup]_vars

(***************************************************************************)
(* Properties                                                              *)
(***************************************************************************)
IsSet(L) == \A i, j \in 1 .. Len(L) : L[i] = L[j] => i = j

\* the superblock the next operation works on: the resident copy once loaded
SbNow == IF sbLoaded = 1 THEN sb ELSE dSb

\* the clusters the next links visit from dHead up to and including dTail
RECURSIVE WalkToTail(_, _, _, _)
WalkToTail(dz, c, t, n) ==
  IF n = 0 \/ c \notin Clusters THEN <<>>
  ELSE IF c = t THEN <<c>>
  ELSE <<c>> \o WalkToTail(dz, dz[c].next, t, n - 1)

SpillToTail == WalkToTail(dZone, SbNow.dHead, SbNow.dTail, dZoneTotal + 1)

\* the free clusters: retrieval cache, insertion cache, general repository
FreePool == RetrievLive(SbNow) \o InsertLive(SbNow) \o SpillToTail

\* an operation has just returned
Returned == nOps' = nOps + 1

\* C1: after every soAllocDataCluster and soFreeDataCluster call dZoneFree is
\* the number of live retrieval cache entries plus the number of live insertion
\* cache entries plus the number of clusters the next links visit from dHead to
\* dTail.
C1_DZoneFreeIdentity ==
  call.op \in {"soAllocDataCluster", "soFreeDataCluster"} =>
    SbNow.dZoneFree = (DZONE_CACHE_SIZE - SbNow.dZoneRetriev.cacheIdx)
                        + SbNow.dZoneInsert.cacheIdx
                        + Len(SpillToTail)

\* C1 witness: soFreeDataCluster found the insertion cache full, emptied it
\* into the general repository with soDeplete and inserted its cluster
C1_Witness ==
  /\ call.op = "soFreeDataCluster" /\ res.rc = 0
  /\ SbNow.dZoneInsert.cacheIdx = 1
  /\ SbNow.dZoneInsert.cache[0] = call.arg
  /\ SbNow.dTail \in Clusters
  /\ dZone[SbNow.dTail].stat # NULL_INODE

\* C2: between operations no cluster is twice in the retrieval cache, the
\* insertion cache and the general repository taken together.
\* A successful soAllocDataCluster takes the cluster it returns out of them, so
\* the clusters of a run of allocations are pairwise distinct.
C2_FreePoolDistinct ==
  /\ IsSet(FreePool)
  /\ call.op = "soAllocDataCluster" /\ res.rc = 0 =>
       \A i \in 1 .. Len(FreePool) : FreePool[i] # res.out

\* C2 witness: an allocation has succeeded after soReplenish ran out of general
\* repository midway and went on with the clusters soDeplete moved there
C2_Witness ==
  /\ call.op = "soAllocDataCluster" /\ res.rc = 0
  /\ SbNow.dHead = NULL_CLUSTER /\ SbNow.dTail = NULL_CLUSTER
  /\ SbNow.dZoneInsert.cacheIdx = 0
  /\ SbNow.dZoneRetriev.cacheIdx = DZONE_CACHE_SIZE - 1
  /\ dZone[SbNow.dZoneRetriev.cache[DZONE_CACHE_SIZE - 1]].stat # NULL_INODE

\* the inodes in use on the device
InUse == {n \in Inodes : FreeBit(dInT[n].mode) = 0}

ToRetrieve ==
  IF SbNow.dZoneRetriev.cacheIdx < DZONE_CACHE_SIZE
  THEN SbNow.dZoneRetriev.cache[SbNow.dZoneRetriev.cacheIdx]
  ELSE IF SbNow.dHead # NULL_CLUSTER THEN SbNow.dHead
  ELSE SbNow.dZoneInsert.cache[0]

\* C4: soAllocDataCluster called with dZoneFree > 0 for an inode in use, when
\* the cluster it retrieves is dirty, succeeds and leaves that cluster with
\* prev = next = NULL_CLUSTER and stat = nInode.
C4_DirtyAllocSucceeds ==
  [][(/\ call'.op = "soAllocDataCluster" /\ Returned
      /\ SbNow.dZoneFree > 0
      /\ call'.nInode \in InUse
      /\ ToRetrieve \in Clusters
      /\ dZone[ToRetrieve].stat # NULL_INODE)
     => (/\ res'.rc = 0
         /\ res'.out = ToRetrieve
         /\ dZone'[ToRetrieve].prev = NULL_CLUSTER
         /\ dZone'[ToRetrieve].next = NULL_CLUSTER
         /\ dZone'[ToRetrieve].stat = call'.nInode)]_vars

\* the number of places of the content trees on the device that hold c
Occurrences(c) ==
  Cardinality({<<n, k>> \in Inodes \X (0 .. N_DIRECT - 1) : dInT[n].d[k] = c})
  + Cardinality({n \in Inodes : dInT[n].i1 = c})
  + Cardinality({n \in Inodes : dInT[n].i2 = c})
  + Cardinality({<<n, k>> \in Inodes \X RefIdx :
                   dInT[n].i1 \in Clusters /\ dZone[dInT[n].i1].ref[k] = c})
  + Cardinality({<<n, k>> \in Inodes \X RefIdx :
                   dInT[n].i2 \in Clusters /\ dZone[dInT[n].i2].ref[k] = c})
  + Cardinality({<<n, j, k>> \in Inodes \X RefIdx \X RefIdx :
                   /\ dInT[n].i2 \in Clusters
                   /\ dZone[dInT[n].i2].ref[j] \in Clusters
                   /\ dZone[dZone[dInT[n].i2].ref[j]].ref[k] = c})

\* the clusters of the free pools
Free == {FreePool[i] : i \in 1 .. Len(FreePool)}

\* the clusters that carry stat = n and are once in the content tree of inode n
Allocated ==
  {c \in Clusters :
     /\ Occurrences(c) = 1
     /\ \E n \in Inodes : dZone[c].stat = n /\ c \in TreeClusters(dZone, dInT[n])}

\* C5: whatever cluster operations were called, failing ones included,
\* dZoneFree plus the number of allocated clusters is dZoneTotal and no cluster
\* is outside both the free pools and every content tree.
C5_Conservation ==
  /\ SbNow.dZoneFree + Cardinality(Allocated) = dZoneTotal
  /\ \A c \in Clusters : c \in Free \/ c \in Referenced

\* C6: after every soHandleFileCluster and soHandleFileClusters on an inode in
\* use, cluCount is the number of data references in d[], in the i1 cluster and
\* in the children of the i2 cluster plus the number of indirection clusters.
C6_CluCount ==
  (call.op \in {"soHandleFileCluster", "soHandleFileClusters"}
     /\ call.nInode \in InUse)
  => dInT[call.nInode].cluCount = TreeCount(dZone, dInT[call.nInode])

\* C7: after every soAllocInode and soFreeInode call the next links from iHead
\* visit exactly iFree free inodes, once each, and end at iTail; the tail's next
\* and the head's prev are NULL_INODE and every other node's prev is its
\* predecessor; iHead = iTail = NULL_INODE when iFree = 0.
C7_FreeInodeList ==
  call.op \in {"soAllocInode", "soFreeInode"} =>
    LET L == WalkInodes(dInT, dSb.iHead, iTotal + 1) IN
    /\ Len(L) = dSb.iFree
    /\ IsSet(L)
    /\ \A i \in 1 .. Len(L) : FreeBit(dInT[L[i]].mode) = 1
    /\ dSb.iFree = 0 => dSb.iHead = NULL_INODE /\ dSb.iTail = NULL_INODE
    /\ dSb.iFree > 0 =>
         /\ L[Len(L)] = dSb.iTail
         /\ dInT[dSb.iTail].vD1 = NULL_INODE
         /\ dInT[dSb.iHead].vD2 = NULL_INODE
         /\ \A i \in 2 .. Len(L) : dInT[L[i]].vD2 = L[i - 1]

\* an inode is freed onto a list from which the first inode had been taken
C7_Witness ==
  /\ call.op = "soFreeInode"
  /\ res.rc = 0
  /\ dSb.iFree >= 2
  /\ dSb.iHead # 1
  /\ dSb.iTail = call.nInode

\* C8: soCleanInode on a free inode in the dirty state succeeds, leaves every
\* cluster the inode referenced with stat = NULL_INODE and the inode with
\* d[], i1 and i2 all NULL_CLUSTER; and once soAllocInode has handed an inode
\* out no cluster carries that inode's number in stat.
C8_CleanInode ==
  [][/\ (/\ call'.op = "soCleanInode" /\ Returned
          /\ call'.nInode \in Inodes
          /\ FreeBit(dInT[call'.nInode].mode) = 1
          /\ soQCheckFCInode(dInT[call'.nInode]) # 0)
         => (/\ res'.rc = 0
             /\ \A c \in TreeClusters(dZone, dInT[call'.nInode]) \cap Clusters :
                   dZone'[c].stat = NULL_INODE
             /\ dInT'[call'.nInode].d = NullDirect
             /\ dInT'[call'.nInode].i1 = NULL_CLUSTER
             /\ dInT'[call'.nInode].i2 = NULL_CLUSTER)
     /\ (call'.op = "soAllocInode" /\ Returned /\ res'.rc = 0)
         => \A c \in Clusters : dZone'[c].stat # res'.out]_vars

\* C9: when an operation returns an error, the superblock later operations
\* observe (the resident copy once loaded, block 0 otherwise) is the one
\* observed before the operation; in particular dZoneFree and the retrieval
\* cache after a failed soAllocDataCluster.
C9_FailedOpKeepsSuperBlock ==
  [][(Returned /\ res'.rc # 0) => SbNow' = SbNow]_vars

\* C10: when a transfer of an operation fails, the operation returns the
\* error of that transfer, -EIO, to its caller.
C10_ErrorsPropagate ==
  (call.io > 0 /\ res.io = 0) => res.rc = -EIO

\* the cluster that file-cluster index k of inode n maps to in inode table T
\* and data zone Z (NULL_CLUSTER when the index is unallocated)
RefAt(T, Z, n, k) ==
  IF k < N_DIRECT THEN T[n].d[k]
  ELSE IF k < N_DIRECT + RPC
  THEN IF T[n].i1 \in Clusters THEN Z[T[n].i1].ref[k - N_DIRECT] ELSE NULL_CLUSTER
  ELSE IF T[n].i2 \in Clusters
  THEN LET c == Z[T[n].i2].ref[(k - N_DIRECT - RPC) \div RPC]
       IN IF c \in Clusters THEN Z[c].ref[(k - N_DIRECT - RPC) % RPC] ELSE NULL_CLUSTER
  ELSE NULL_CLUSTER

Elems(L) == {L[i] : i \in 1 .. Len(L)}

\* a call of soHandleFileCluster with operation o has just returned success
HandledOk(o) ==
  /\ Returned
  /\ call'.op = "soHandleFileCluster" /\ call'.arg = o /\ res'.rc = 0

\* C13 as stated: a successful soHandleFileCluster(nInode, k, FREE) on an
\* allocated index k puts the data cluster in a free pool, decrements cluCount
\* by one and leaves the reference at index k in place.
C13_FreeDecrements ==
  [][HandledOk(FREE) =>
       /\ RefAt(dInT, dZone, call'.nInode, call'.ind) \in Elems(FreePool)'
       /\ dInT'[call'.nInode].cluCount = dInT[call'.nInode].cluCount - 1
       /\ RefAt(dInT', dZone', call'.nInode, call'.ind)
            = RefAt(dInT, dZone, call'.nInode, call'.ind)]_vars

\* C13 amended: a successful soHandleFileCluster(nInode, k, FREE) on an
\* allocated index k puts the data cluster in a free pool, leaves cluCount as
\* it was and leaves the reference at index k in place.
C13_FreeKeepsCount ==
  [][HandledOk(FREE) =>
       /\ RefAt(dInT, dZone, call'.nInode, call'.ind) \in Elems(FreePool)'
       /\ dInT'[call'.nInode].cluCount = dInT[call'.nInode].cluCount
       /\ RefAt(dInT', dZone', call'.nInode, call'.ind)
            = RefAt(dInT, dZone, call'.nInode, call'.ind)]_vars

\* C13 witness: FREE has succeeded on an index of the single indirect list;
\* the cluster is still referenced there and is in a free pool
C13_Witness ==
  /\ call.op = "soHandleFileCluster" /\ call.arg = FREE /\ res.rc = 0
  /\ call.ind = N_DIRECT
  /\ RefAt(dInT, dZone, call.nInode, call.ind) \in Elems(FreePool)

\* ref[j] is the only reference of the reference list ref
OnlyRef(ref, j) ==
  /\ ref[j] # NULL_CLUSTER
  /\ \A i \in RefIdx \ {j} : ref[i] = NULL_CLUSTER

\* C14: when a successful soHandleFileCluster(nInode, k, FREE_CLEAN) removes
\* the last reference of an indirection cluster, that cluster is freed too,
\* cluCount is decremented once more for it and the reference to it (i1, or
\* the slot of the i2 cluster, and i2 itself when the i2 cluster empties) is
\* NULL_CLUSTER afterwards.
C14_IndirectionCollapse ==
  [][HandledOk(FREE_CLEAN) =>
       LET n == call'.nInode
           k == call'.ind
           i == dInT[n]
           s == (k - N_DIRECT - RPC) \div RPC
           o == (k - N_DIRECT - RPC) % RPC
       IN  /\ (/\ k >= N_DIRECT /\ k < N_DIRECT + RPC
               /\ i.i1 \in Clusters
               /\ OnlyRef(dZone[i.i1].ref, k - N_DIRECT))
              => /\ i.i1 \in Elems(FreePool)'
                 /\ dInT'[n].i1 = NULL_CLUSTER
                 /\ dInT'[n].cluCount = i.cluCount - 2
           /\ (/\ k >= N_DIRECT + RPC
               /\ i.i2 \in Clusters
               /\ dZone[i.i2].ref[s] \in Clusters
               /\ OnlyRef(dZone[dZone[i.i2].ref[s]].ref, o))
              => /\ dZone[i.i2].ref[s] \in Elems(FreePool)'
                 /\ dZone'[i.i2].ref[s] = NULL_CLUSTER
                 /\ IF OnlyRef(dZone[i.i2].ref, s)
                    THEN /\ i.i2 \in Elems(FreePool)'
                         /\ dInT'[n].i2 = NULL_CLUSTER
                         /\ dInT'[n].cluCount = i.cluCount - 3
                    ELSE /\ dInT'[n].i2 = i.i2
                         /\ dInT'[n].cluCount = i.cluCount - 2]_vars

\* C14 witness: FREE_CLEAN has succeeded on the only index of the second
\* cluster of single indirect references under i2, which is NULL_CLUSTER in
\* the i2 cluster now while the first one is still there
C14_Witness ==
  /\ call.op = "soHandleFileCluster" /\ call.arg = FREE_CLEAN /\ res.rc = 0
  /\ call.ind = N_DIRECT + (2 * RPC)
  /\ dInT[call.nInode].i2 \in Clusters
  /\ dZone[dInT[call.nInode].i2].ref[1] = NULL_CLUSTER
  /\ dZone[dInT[call.nInode].i2].ref[0] \in Clusters

\* the free pools as the superblock and the next links describe them
Pools ==
  <<SbNow.dZoneFree, SbNow.dZoneRetriev, SbNow.dZoneInsert, SpillToTail>>

\* the indirection clusters of inode n that lose their last reference when
\* the reference at index k is removed
Emptied(T, Z, n, k) ==
  IF k < N_DIRECT THEN {}
  ELSE IF k < N_DIRECT + RPC
  THEN IF T[n].i1 \in Clusters /\ OnlyRef(Z[T[n].i1].ref, k - N_DIRECT)
       THEN {T[n].i1} ELSE {}
  ELSE IF T[n].i2 \notin Clusters THEN {}
  ELSE LET s == (k - N_DIRECT - RPC) \div RPC
           o == (k - N_DIRECT - RPC) % RPC
           c == Z[T[n].i2].ref[s]
       IN  IF c \in Clusters /\ OnlyRef(Z[c].ref, o)
           THEN {c} \cup (IF OnlyRef(Z[T[n].i2].ref, s) THEN {T[n].i2} ELSE {})
           ELSE {}

\* C15 as stated: a successful soHandleFileCluster with operation CLEAN frees
\* no cluster: dZoneFree, both caches and the list of the general repository
\* are the same before and after the call, also when the call empties an
\* indirection cluster.
C15_CleanFreesNothing ==
  [][HandledOk(CLEAN) => Pools' = Pools]_vars

\* C15 amended: a successful soHandleFileCluster with operation CLEAN does not
\* free the data cluster it dissociates, whose stat is NULL_INODE afterwards;
\* when the call empties no indirection cluster the free pools are the same
\* before and after, and each indirection cluster it empties is freed:
\* dZoneFree grows by their number and they are in a free pool afterwards.
C15_CleanFreesIndirectionOnly ==
  [][HandledOk(CLEAN) =>
       LET n == call'.nInode
           k == call'.ind
           c == RefAt(dInT, dZone, n, k)
           E == Emptied(dInT, dZone, n, k)
       IN  /\ dZone'[c].stat = NULL_INODE
           /\ (c \in Elems(FreePool)') <=> (c \in Elems(FreePool))
           /\ E = {} => Pools' = Pools
           /\ SbNow'.dZoneFree = SbNow.dZoneFree + Cardinality(E)
           /\ E \subseteq Elems(FreePool)']_vars

\* C15 witness: CLEAN has succeeded on the first index of the single indirect
\* list of a free inode and has left it without its i1 cluster
C15_Witness ==
  /\ call.op = "soHandleFileCluster" /\ call.arg = CLEAN /\ res.rc = 0
  /\ call.ind = N_DIRECT
  /\ FreeBit(dInT[call.nInode].mode) = 1
  /\ dInT[call.nInode].i1 = NULL_CLUSTER

\* a call of soHandleFileClusters with operation o has just returned success
HandledAllOk(o) ==
  /\ Returned
  /\ call'.op = "soHandleFileClusters" /\ call'.arg = o /\ res'.rc = 0

FileIdx == 0 .. (MAX_FILE_CLUSTERS - 1)

\* C16: after a successful soHandleFileClusters(nInode, startK, FREE_CLEAN)
\* every index >= startK of the inode is unallocated and the cluster it had
\* has stat = NULL_INODE, every index < startK maps to the cluster it mapped
\* to before, and cluCount is the number of data clusters still referenced
\* plus the indirection clusters still in the tree.
C16_Truncate ==
  [][HandledAllOk(FREE_CLEAN) =>
       LET n == call'.nInode
           startK == call'.ind
       IN  /\ \A k \in FileIdx :
                IF k >= startK
                THEN /\ RefAt(dInT', dZone', n, k) = NULL_CLUSTER
                     /\ RefAt(dInT, dZone, n, k) \in Clusters
                          => dZone'[RefAt(dInT, dZone, n, k)].stat = NULL_INODE
                ELSE RefAt(dInT', dZone', n, k) = RefAt(dInT, dZone, n, k)
           /\ dInT'[n].cluCount = TreeCount(dZone', dInT'[n])]_vars

\* C16 witness: soHandleFileClusters(nInode, N_DIRECT + 1, FREE_CLEAN) has
\* succeeded on a file that keeps its first single indirect reference and
\* has lost its double indirect tree
C16_Witness ==
  /\ call.op = "soHandleFileClusters" /\ call.arg = FREE_CLEAN /\ res.rc = 0
  /\ call.ind = N_DIRECT + 1
  /\ RefAt(dInT, dZone, call.nInode, N_DIRECT) \in Clusters
  /\ dInT[call.nInode].i2 = NULL_CLUSTER
  /\ dInT[call.nInode].cluCount = 3
  /\ SbNow.dZoneInsert.cacheIdx > 0
  /\ nOps = 3


\* the entries in use of the directory of inode n on the device that are called e
InUseNamed(T, Z, n, e) ==
  {j \in 1 .. Len(DirEntries(Z, T[n])) :
     DeInUse(DirEntries(Z, T[n])[j]) /\ CStr(DirEntries(Z, T[n])[j].name) = e}

\* C11: soGetDirEntryByName(dir, name) returns success with the inode number
\* and the index of the entry whenever the directory holds an entry in use
\* called name, wherever it sits, free entries (clean or dirty) before it
\* included.
C11_LookupFindsEntry ==
  [][(call'.op = "soGetDirEntryByName" /\ call'.nInode \in Inodes)
     => \A j \in InUseNamed(dInT, dZone, call'.nInode, call'.name) :
          (\A k \in InUseNamed(dInT, dZone, call'.nInode, call'.name) : j <= k)
          => /\ res'.rc = 0
             /\ res'.out = <<DirEntries(dZone, dInT[call'.nInode])[j].nInode, j - 1>>]_vars


\* a call of soAddAttDirEntry or soRemDetachDirEntry with operation o on
\* inodes of the table has just succeeded
DirOpOk(f, o) ==
  /\ call'.op = f /\ call'.arg = o /\ res'.rc = 0
  /\ call'.nInode \in Inodes /\ call'.ind \in Inodes

\* C17: when soRemDetachDirEntry with op REM brings the refCount of the inode
\* of the entry to 0, the inode ends on the list of free inodes and every data
\* cluster it held ends in a free pool.
C17_RemFrees ==
  [][DirOpOk("soRemDetachDirEntry", REM) =>
       \A j \in InUseNamed(dInT, dZone, call'.nInode, call'.name) :
         LET n == DirEntries(dZone, dInT[call'.nInode])[j].nInode
         IN  dInT'[n].refCount = 0 =>
               /\ n \in Elems(WalkInodes(dInT', dSb'.iHead, iTotal + 1))
               /\ (TreeClusters(dZone, dInT[n]) \cap Clusters) \subseteq Elems(FreePool')]_vars

\* C18: soAddAttDirEntry with op ATTACH of a directory that has its clusters
\* increments by one the refCount of the attached directory and the refCount
\* of the directory it is attached to.
C18_AttachCounts ==
  [][(DirOpOk("soAddAttDirEntry", ATTACH) /\ call'.nInode # call'.ind
        /\ dInT[call'.ind].cluCount > 0) =>
       /\ dInT'[call'.ind].refCount = dInT[call'.ind].refCount + 1
       /\ dInT'[call'.nInode].refCount = dInT[call'.nInode].refCount + 1]_vars

\* the directories in use
Dirs == {d \in Inodes : FreeBit(dInT[d].mode) = 0 /\ TypeBits(dInT[d].mode) = INODE_DIR}

\* C19: after every ADD, ATTACH, REM and DETACH, for every directory d and
\* every entry in use of d other than "." and ".." that refers to a directory
\* e, the entry ".." of e refers to d.
C19_DotDot ==
  call.op \in {"soAddAttDirEntry", "soRemDetachDirEntry"} =>
    \A d \in Dirs :
      \A j \in 3 .. Len(DirEntries(dZone, dInT[d])) :
        LET e == DirEntries(dZone, dInT[d])[j]
        IN  (DeInUse(e) /\ e.nInode \in Dirs) =>
              /\ Len(DirEntries(dZone, dInT[e.nInode])) >= 2
              /\ DirEntries(dZone, dInT[e.nInode])[2].nInode = d

\* C20: soAddAttDirEntry fails with EMLINK, changing nothing, whenever it
\* would increment a refCount that holds the maximum, so that no refCount
\* ever becomes smaller through it.
C20_NoWrap ==
  [][call'.op = "soAddAttDirEntry" =>
       \A n \in Inodes :
         FreeBit(dInT[n].mode) = 0 => dInT'[n].refCount >= dInT[n].refCount]_vars


\* the names between the slashes of a path
RECURSIVE Components(_)
Components(p) ==
  IF StripSlashes(p) = <<>> THEN <<>>
  ELSE Components(SubSeq(p, 1, LastSlash(StripSlashes(p)) - 1)) \o <<Basename(p)>>

\* the directory that holds the last of the names c and the inode of that
\* name, when ent is the inode reached so far and dir the directory that holds
\* it; <<>> when a name is not found
RECURSIVE ResolveFrom(_, _, _, _, _)
ResolveFrom(T, Z, dir, ent, c) ==
  IF c = <<>> THEN <<dir, ent>>
  ELSE IF ent \notin Inodes \/ FreeBit(T[ent].mode) # 0 \/ TypeBits(T[ent].mode) # INODE_DIR
  THEN <<>>
  ELSE IF InUseNamed(T, Z, ent, Head(c)) = {} THEN <<>>
  ELSE ResolveFrom(T, Z, ent,
                   DirEntries(Z, T[ent])[CHOOSE j \in InUseNamed(T, Z, ent, Head(c)) :
                        \A k \in InUseNamed(T, Z, ent, Head(c)) : j <= k].nInode,
                   Tail(c))

CurAfter == Cur(0)'

\* what a lookup of the name e in the directory of inode n answers after the
\* call: the inode of the entry, or the error
LookupAfter(n, e) ==
  LET r == soGetDirEntryByName(CurAfter, n, e)
  IN  IF r.rc = 0 THEN r.ent ELSE r.rc

\* C21: soRenameDirEntry(dir, oldName, newName) is atomic at the level of the
\* entry.  When the directory holds an entry in use called oldName and none
\* called newName, the call succeeds, afterwards a lookup of newName yields
\* the inode that oldName had, a lookup of oldName yields not found, and no
\* other entry, no refCount and no size has changed; when one of the two
\* conditions fails the entries of the directory are as before the call.
C21_RenameAtomic ==
  [][(/\ call'.op = "soRenameDirEntry" /\ call'.nInode \in Inodes
      /\ soQCheckDirCont(Cur(0), dInT[call'.nInode]) = 0) =>
       LET n == call'.nInode
           before == DirEntries(dZone, dInT[n])
           after == DirEntries(dZone', dInT'[n])
           O == InUseNamed(dInT, dZone, n, call'.name)
           N == InUseNamed(dInT, dZone, n, call'.newName)
       IN  IF O # {} /\ N = {}
           THEN /\ res'.rc = 0
                /\ \E j \in O :
                     /\ LookupAfter(n, call'.newName) = before[j].nInode
                     /\ Len(after) = Len(before)
                     /\ \A k \in 1 .. Len(before) : k # j => after[k] = before[k]
                /\ LookupAfter(n, call'.name) = -ENOENT
                /\ \A m \in Inodes : /\ dInT'[m].refCount = dInT[m].refCount
                                     /\ dInT'[m].size = dInT[m].size
           ELSE after = before]_vars


\* the path that the symbolic link of inode n holds
LinkTarget(T, Z, n) ==
  IF T[n].d[0] \in Clusters THEN CStr(Z[T[n].d[0]].de[0].name) ELSE <<>>

\* the resolution of the names c from the inode ent of the directory dir, h
\* symbolic links passed so far: a link is passed through when names follow
\* it or when it ends the path another link holds (follow); "found" with the
\* directory and the inode reached, "none" when a name is missing, "loop"
\* when a link is met after another one was passed
RECURSIVE Walk(_, _, _, _, _, _, _)
Walk(T, Z, dir, ent, c, h, follow) ==
  IF c = <<>> THEN [how |-> "found", dir |-> dir, ent |-> ent, hops |-> h]
  ELSE IF \/ ent \notin Inodes \/ FreeBit(T[ent].mode) # 0
          \/ TypeBits(T[ent].mode) # INODE_DIR
          \/ InUseNamed(T, Z, ent, Head(c)) = {}
  THEN [how |-> "none", dir |-> dir, ent |-> ent, hops |-> h]
  ELSE LET j == CHOOSE j \in InUseNamed(T, Z, ent, Head(c)) :
                  \A k \in InUseNamed(T, Z, ent, Head(c)) : j <= k
           e == DirEntries(Z, T[ent])[j].nInode
       IN  IF /\ e \in Inodes /\ TypeBits(T[e].mode) = INODE_SYMLINK
              /\ (Tail(c) # <<>> \/ follow)
           THEN IF h >= 1 THEN [how |-> "loop", dir |-> ent, ent |-> e, hops |-> h + 1]
                ELSE LET t == Walk(T, Z, 0, 0, Components(LinkTarget(T, Z, e)), h + 1, TRUE)
                     IN  IF t.how # "found" THEN t
                         ELSE Walk(T, Z, t.dir, t.ent, Tail(c), t.hops, follow)
           ELSE Walk(T, Z, ent, e, Tail(c), h, follow)

\* the call before the next state was soGetDirEntryByPath of an absolute path,
\* and the variable inode of soTraversePath passed the check made of it before
\* it is assigned
Resolved ==
  /\ call'.op = "soGetDirEntryByPath" /\ call'.arg = 0
  /\ ByteOf(call'.name, 0) = Slash

\* C22: within one call of soGetDirEntryByPath a resolution that passes
\* through exactly one symbolic link succeeds and one that passes through two
\* chained symbolic links returns -ELOOP, whatever the calls before it met.
C22_SymlinkHops ==
  [][Resolved =>
       LET w == Walk(dInT, dZone, 0, 0, Components(call'.name), 0, FALSE)
       IN  /\ (w.how = "found" /\ w.hops = 1) => res'.rc = 0
           /\ w.how = "loop" => res'.rc = -ELOOP]_vars

\* C23: when the final component of the path names a symbolic link,
\* soGetDirEntryByPath returns the inode number of the link itself, with the
\* directory that holds it: the link is not followed and is no hop.
C23_TerminalLink ==
  [][Resolved =>
       LET w == Walk(dInT, dZone, 0, 0, Components(call'.name), 0, FALSE)
       IN  (/\ w.how = "found" /\ w.hops = 0 /\ w.ent \in Inodes
            /\ TypeBits(dInT[w.ent].mode) = INODE_SYMLINK)
           => /\ res'.rc = 0
              /\ res'.out = <<w.dir, w.ent>>]_vars


\* the permissions of the class that the caller of user u and group g falls in
\* for the inode i: those of the owner, else of the group, else of the others
Triple(i, u, g) ==
  IF u = i.owner THEN (i.mode \div 64) % 8
  ELSE IF g = i.group THEN (i.mode \div 8) % 8
  ELSE i.mode % 8

\* every bit of the operations op is a bit of the permissions t
Covers(t, op) == \A b \in {R, W, X} : (op \div b) % 2 = 1 => (t \div b) % 2 = 1

\* C24: soAccessGranted(nInode, op) of an inode in use, for the superuser,
\* grants R and W and grants X iff one of the three execute bits of the inode
\* is set; for any other caller it grants iff every operation requested is in
\* the permissions of the one class the caller falls in (owner, else group,
\* else others), and answers -EACCES otherwise.
C24_AccessTriple ==
  [][(/\ call'.op = "soAccessGranted" /\ call'.nInode \in Inodes
      /\ call'.arg \in 1 .. (R + W + X)
      /\ FreeBit(dInT[call'.nInode].mode) = 0
      /\ TypeBits(dInT[call'.nInode].mode) \in {INODE_DIR, INODE_FILE, INODE_SYMLINK})
     => LET i == dInT[call'.nInode]
            granted ==
              IF call'.uid = 0
              THEN (call'.arg \div X) % 2 = 1 =>
                     \/ Covers((i.mode \div 64) % 8, X)
                     \/ Covers((i.mode \div 8) % 8, X)
                     \/ Covers(i.mode % 8, X)
              ELSE Covers(Triple(i, call'.uid, call'.gid), call'.arg)
        IN  res'.rc = IF granted THEN 0 ELSE -EACCES]_vars

\* a caller who is not the owner but is of the group of the file was refused
\* an operation that the others are allowed and the group is not
C24_Witness_GroupRefused ==
  /\ call.op = "soAccessGranted" /\ call.nInode = 1 /\ call.arg = W
  /\ call.uid # 0 /\ call.uid # dInT[1].owner /\ call.gid = dInT[1].group
  /\ dInT[1].mode % INODE_FREE = INODE_FILE + (511 - INODE_WR_GRP)
  /\ res.rc = -EACCES


\* C25: after every operation on the inodes other than the root, inode 0 is
\* a directory in use whose first direct reference is cluster 0, cluster 0 is
\* allocated to inode 0, and the entries 0 and 1 of that cluster are "." and
\* ".." of inode 0: no such operation frees, cleans or overwrites inode 0 or
\* cluster 0.
C25_RootKept ==
  /\ FreeBit(dInT[0].mode) = 0
  /\ TypeBits(dInT[0].mode) = INODE_DIR
  /\ dInT[0].d[0] = 0
  /\ dZone[0].stat = 0
  /\ dZone[0].de[0] = MkDirEntry(Dot, 0)
  /\ dZone[0].de[1] = MkDirEntry(DotDot, 0)


\* the directory of inode n has no entry free in the clean state
NoCleanSlot(T, Z, n) ==
  \A j \in 1 .. Len(DirEntries(Z, T[n])) : ~DeClean(DirEntries(Z, T[n])[j])

\* C26: for every directory inode in use, after every directory operation,
\* size equals cluCount * DPC * sizeof(SODirEntry); hence the index
\* cluCount * DPC that a failed lookup yields when the directory has no clean
\* entry is the first index past the entries of the directory, directories
\* that use the cluster of single indirect references included.
C26_SizeOfDirectory ==
  /\ \A n \in Inodes :
       (FreeBit(dInT[n].mode) = 0 /\ TypeBits(dInT[n].mode) = INODE_DIR)
       => dInT[n].size = dInT[n].cluCount * DPC * DirEntrySize
  /\ (/\ call.op = "soGetDirEntryByName" /\ res.rc = -ENOENT
      /\ NoCleanSlot(dInT, dZone, call.nInode))
     => res.out = <<Len(DirEntries(dZone, dInT[call.nInode]))>>


\* C27: a call of soFreeInode that succeeds changes, of the inode it frees,
\* only the free flag of mode, which it sets, and vD1 and vD2, which become
\* the links of the list of free inodes: the type, the permissions, refCount,
\* owner, group, size, cluCount and the references are as before, so that the
\* inode is free in the dirty state.
C27_FreeInodeFrame ==
  [][(call'.op = "soFreeInode" /\ res'.rc = 0 /\ call'.nInode \in Inodes) =>
       dInT'[call'.nInode] =
         [dInT[call'.nInode] EXCEPT
            !.mode = (@ % INODE_FREE) + INODE_FREE,
            !.vD1 = dInT'[call'.nInode].vD1,
            !.vD2 = dInT'[call'.nInode].vD2]]_vars


\* the call before the next state was soHandleFileCluster with op GET
GetCalled == call'.op = "soHandleFileCluster" /\ call'.arg = GET

C29_AllocInodeType ==
  [][call'.op = "soAllocInode" =>
       /\ call'.arg \notin {INODE_DIR, INODE_FILE, INODE_SYMLINK}
          => /\ res'.rc = -EINVAL
             /\ dInT' = dInT /\ dSb' = dSb /\ dZone' = dZone
       /\ res'.rc = 0
          => /\ TypeBits(dInT'[res'.out].mode) \in {INODE_DIR, INODE_FILE, INODE_SYMLINK}
             /\ FreeBit(dInT'[res'.out].mode) = 0
             /\ dInT'[res'.out].mode % INODE_SYMLINK = 0]_vars


\* the cluster at position k of the file of inode n, NULL_CLUSTER outside
\* the positions a file has
ClusterAt(n, k) ==
  IF k < 0 \/ k >= MAX_FILE_CLUSTERS THEN NULL_CLUSTER
  ELSE FileClusterOf(dZone, dInT[n], k)

\* C30: for every inode in use and every position k of its file that has a
\* cluster, next of that cluster is the cluster at position k + 1 and prev
\* the cluster at position k - 1, NULL_CLUSTER where that position has no
\* cluster or is outside the file; this holds after every ALLOC, at the
\* first and the last position of each band of references and at position
\* MAX_FILE_CLUSTERS - 1 included, and after every soWriteFileCluster.
C30_NeighbourLinks ==
  \A n \in Inodes :
    FreeBit(dInT[n].mode) = 0 =>
      \A k \in 0 .. (MAX_FILE_CLUSTERS - 1) :
        ClusterAt(n, k) \in Clusters =>
          /\ dZone[ClusterAt(n, k)].next = ClusterAt(n, k + 1)
          /\ dZone[ClusterAt(n, k)].prev = ClusterAt(n, k - 1)


\* what soHandleFileCluster(n, k, GET) answers in the current state: its
\* status and the cluster it gives
GetOf(st, n, k) ==
  With([g \in {Invoke("soHandleFileCluster", st, <<n, k, GET>>)} |->
        [rc |-> g.rc, out |-> IF g.rc = 0 THEN g.out ELSE 0]])

C32_ReloadFlushes ==
  [][/\ (/\ call'.op = "soLoadBlockInT"
         /\ res'.rc = 0
         /\ nBlkInTLoaded >= 0
         /\ nBlkInTLoaded # call'.arg)
        => \A o \in 0 .. (IPB - 1) : dInT'[nBlkInTLoaded * IPB + o] = inode[o]
     /\ (/\ call'.op = "soLoadSngIndRefClust"
         /\ res'.rc = 0
         /\ InDataZone(nClustSIRef)
         /\ nClustSIRef # call'.arg)
        => dZone'[Logic(nClustSIRef)] = RefView(sngIndRefClust)
     /\ (/\ call'.op = "soLoadDirRefClust"
         /\ res'.rc = 0
         /\ InDataZone(nClustDRef)
         /\ nClustDRef # call'.arg)
        => dZone'[Logic(nClustDRef)] = RefView(dirRefClust)]_vars


\* the header of a cluster
Header(c) == [prev |-> c.prev, next |-> c.next, stat |-> c.stat]

\* C33: after a successful soLoadDirRefClust(c) or soLoadSngIndRefClust(c) the
\* storage area holds cluster c as the device holds it, also when the
\* cluster was written on the device past the storage area since it was
\* last loaded; a later store through the area leaves the header (prev,
\* next, stat) of the cluster on the device as it was.
C33_LoadIsCurrent ==
  [][/\ (call'.op = "soLoadDirRefClust" /\ res'.rc = 0)
        => RefView(dirRefClust') = dZone'[Logic(call'.arg)]
     /\ (call'.op = "soLoadSngIndRefClust" /\ res'.rc = 0)
        => RefView(sngIndRefClust') = dZone'[Logic(call'.arg)]
     /\ (call'.op = "soStoreDirRefClust" /\ res'.rc = 0)
        => Header(dZone'[Logic(nClustDRef)]) = Header(dZone[Logic(nClustDRef)])
     /\ (call'.op = "soStoreSngIndRefClust" /\ res'.rc = 0)
        => Header(dZone'[Logic(nClustSIRef)]) = Header(dZone[Logic(nClustSIRef)])]_vars


\* C34: soReadFileCluster(nInode, k, buff) and soWriteFileCluster(nInode, k,
\* buff) leave every inode other than nInode as it was in the table of
\* inodes, whether nInode is the first inode of its block or not.
C34_OtherInodesKept ==
  [][call'.op \in {"soReadFileCluster", "soWriteFileCluster"}
     => \A m \in Inodes : m # call'.nInode => dInT'[m] = dInT[m]]_vars


\* C35: soReadFileCluster and soWriteFileCluster accept every inode in use in
\* 0 .. iTotal - 1, the root directory's inode 0 included, and every position
\* in 0 .. MAX_FILE_CLUSTERS - 1; they answer -EINVAL for the inode numbers
\* from iTotal on and the positions from MAX_FILE_CLUSTERS on, and for those
\* only.
C35_RootAccepted ==
  [][call'.op \in {"soReadFileCluster", "soWriteFileCluster"}
     => /\ (call'.nInode >= iTotal \/ call'.ind >= MAX_FILE_CLUSTERS)
           => res'.rc = -EINVAL
        /\ (/\ call'.nInode < iTotal
            /\ call'.ind < MAX_FILE_CLUSTERS
            /\ FreeBit(dInT[call'.nInode].mode) = 0)
           => res'.rc # -EINVAL]_vars


\* the positions from k on of the file of inode n that have a cluster, the
\* highest first
RECURSIVE Downwards(_, _, _)
Downwards(n, k, j) ==
  IF j < k THEN <<>>
  ELSE (IF ClusterAt(n, j) \in Clusters THEN <<j>> ELSE <<>>) \o Downwards(n, k, j - 1)

RECURSIVE Upwards(_, _, _, _)
Upwards(n, k, lo, hi) ==
  IF lo > hi THEN <<>>
  ELSE (IF lo >= k /\ ClusterAt(n, lo) \in Clusters THEN <<lo>> ELSE <<>>)
       \o Upwards(n, k, lo + 1, hi)

\* the order of the code: band after band from the last, upwards in a band
BandsDownPositionsUp(n, k) ==
  Upwards(n, k, N_DIRECT + RPC, MAX_FILE_CLUSTERS - 1)
    \o Upwards(n, k, N_DIRECT, N_DIRECT + RPC - 1)
    \o Upwards(n, k, 0, N_DIRECT - 1)

WritesOf(c) ==
  With([r \in {IF c.op = "soAllocInode"
               THEN Invoke("soAllocInode", Cur(c.io), <<c.arg>>)
               ELSE IF c.op = "soFreeInode"
               THEN Invoke("soFreeInode", Cur(c.io), <<c.nInode>>)
               ELSE Invoke("soHandleFileCluster", Cur(c.io), <<c.nInode, c.ind, c.arg>>)} |->
        r.wlog])

\* the place of a write in the order: clusters, then the block of the table
\* of inodes, then the superblock
WriteRank(w) == IF w = "cluster" THEN 1 ELSE IF w = "inode block" THEN 2 ELSE 3

\* C37: within one soFreeInode, soAllocInode or soHandleFileCluster with ALLOC
\* or FREE_CLEAN the writes come in the order clusters (data clusters, then
\* clusters of references), block of the table of inodes, superblock: no
\* cluster is written after a block of the table of inodes, and neither
\* after the superblock.  (The formula takes every cluster for one place in
\* the order.)
C37_WriteOrder ==
  [][(\/ call'.op \in {"soFreeInode", "soAllocInode"}
      \/ call'.op = "soHandleFileCluster" /\ call'.arg \in {ALLOC, FREE_CLEAN})
     => \A i, j \in 1 .. Len(WritesOf(call')) :
          i < j => WriteRank(WritesOf(call')[i]) <= WriteRank(WritesOf(call')[j])]_vars

\* the argument of a load names a block of the table of inodes or a cluster
\* of the data zone
LoadArgInRange(c) ==
  IF c.op = "soLoadBlockInT" THEN c.arg < iTableSize
  ELSE IF c.op \in {"soLoadSngIndRefClust", "soLoadDirRefClust"} THEN InDataZone(c.arg)
  ELSE TRUE

\* the error recorded on the storage area the operation of call c works on
SlotError(c, sbE, intE, sircE, drcE) ==
  IF c.op \in {"soLoadSuperBlock", "soGetSuperBlock", "soStoreSuperBlock"} THEN sbE
  ELSE IF c.op \in {"soLoadBlockInT", "soGetBlockInT", "soStoreBlockInT"} THEN intE
  ELSE IF c.op \in {"soLoadSngIndRefClust", "soGetSngIndRefClust", "soStoreSngIndRefClust"}
  THEN sircE
  ELSE drcE

SlotLoads == {"soLoadSuperBlock", "soLoadBlockInT", "soLoadSngIndRefClust", "soLoadDirRefClust"}
SlotStores ==
  {"soStoreSuperBlock", "soStoreBlockInT", "soStoreSngIndRefClust", "soStoreDirRefClust"}
SlotGets == {"soGetSuperBlock", "soGetBlockInT", "soGetSngIndRefClust", "soGetDirRefClust"}

\* C38: once an error is recorded on a storage area, every later load and
\* store on that area returns the recorded error and every later get returns
\* NULL; and a load on an area with no error recorded, with an argument in
\* range and no transfer failing, succeeds whatever is recorded on the other
\* areas.
C38_StickyIsolated ==
  [][LET e == SlotError(call', sbError, intError, sircError, drcError) IN
     /\ (call'.op \in SlotLoads \cup SlotStores /\ e # 0) => res'.rc = e
     /\ (call'.op \in SlotGets /\ e # 0) => res'.out = 0
     /\ (call'.op \in SlotLoads /\ e = 0 /\ call'.io = 0 /\ LoadArgInRange(call'))
          => res'.rc = 0]_vars

\* C38 as the code has it: a recorded error is never cleared; a store on the
\* area returns it and a get returns NULL; a load on the superblock returns
\* it; a load on one of the other three areas returns the error recorded on
\* the superblock if there is one, else -EINVAL for an argument out of range,
\* else the error recorded on its own area; the errors recorded on the other
\* three areas change the result of no operation on another area, a load
\* with an argument out of range records nothing on the three areas, and an
\* operation records no error on an area other than its own and, for a load,
\* the superblock.
C38_StickyBlocks ==
  [][LET e == SlotError(call', sbError, intError, sircError, drcError) IN
     /\ sbError # 0 => sbError' = sbError
     /\ intError # 0 => intError' = intError
     /\ sircError # 0 => sircError' = sircError
     /\ drcError # 0 => drcError' = drcError
     /\ (call'.op \in SlotStores /\ e # 0) => res'.rc = e
     /\ (call'.op \in SlotGets /\ e # 0) => res'.out = 0
     /\ (call'.op \in SlotLoads /\ e # 0)
          => res'.rc = IF sbError' # 0 THEN sbError'
                       ELSE IF ~LoadArgInRange(call') THEN -EINVAL ELSE e
     /\ (call'.op \in SlotLoads /\ e = 0 /\ call'.io = 0 /\ LoadArgInRange(call')
         /\ sbError = 0) => res'.rc = 0
     /\ (call'.op \in SlotLoads /\ ~LoadArgInRange(call'))
          => intError' = intError /\ sircError' = sircError /\ drcError' = drcError
     /\ (call'.op \in SlotLoads \cup SlotStores \cup SlotGets)
          => /\ (call'.op \notin SlotLoads \cup {"soStoreSuperBlock"} => sbError' = sbError)
             /\ (call'.op \notin {"soLoadBlockInT", "soStoreBlockInT"}
                   => intError' = intError)
             /\ (call'.op \notin {"soLoadSngIndRefClust", "soStoreSngIndRefClust"}
                   => sircError' = sircError)
             /\ (call'.op \notin {"soLoadDirRefClust", "soStoreDirRefClust"}
                   => drcError' = drcError)]_vars

\* a load of a cluster of the data zone into the area for direct references,
\* no transfer failing, returned the error recorded on that area, with
\* nothing recorded on the superblock
C38_Witness_StickyLoad ==
  /\ call.op = "soLoadDirRefClust"
  /\ call.arg = Phys(1)
  /\ call.io = 0
  /\ sbError = 0
  /\ drcError # 0
  /\ res.rc = drcError

\* the entry of directory n with name e, as soGetDirEntryByName finds it
EntryOf(st, n, e) ==
  With([g \in {Invoke("soGetDirEntryByName", st, <<n, e>>)} |->
        [rc |-> g.rc, ent |-> g.ent, idx |-> g.idx]])

\* the path held by content cluster 0 of inode n
StoredTarget(n) ==
  IF dInT[n].d[0] = NULL_CLUSTER THEN <<>> ELSE CStr(dZone[dInT[n].d[0]].de[0].name)

LogicalRef(r) == r \in Clusters \cup {NULL_CLUSTER}

\* C40: on the image the formatting program leaves, every stored reference
\* to a cluster is a logical number or NULL_CLUSTER, d[0] of the root's inode
\* is 0, the next fields from dHead lead through each of the clusters
\* 1 .. dZoneTotal-1 once and end at dTail, each cluster of the list has its
\* predecessor in prev and NULL_INODE in stat, and dZoneFree is
\* dZoneTotal - 1, the length of the list, with both caches empty.
C40_FreshImage ==
  call.op = "mkfs_sofs14" =>
    LET L == SpillList(dSb, dZone) IN
    /\ dInT[0].d[0] = 0
    /\ \A k \in DirIdx : LogicalRef(dInT[0].d[k])
    /\ LogicalRef(dInT[0].i1) /\ LogicalRef(dInT[0].i2)
    /\ LogicalRef(dSb.dHead) /\ LogicalRef(dSb.dTail)
    /\ \A c \in Clusters : LogicalRef(dZone[c].prev) /\ LogicalRef(dZone[c].next)
    /\ Len(L) = dZoneTotal - 1
    /\ {L[i] : i \in 1 .. Len(L)} = 1 .. (dZoneTotal - 1)
    /\ L[Len(L)] = dSb.dTail
    /\ \A i \in 1 .. Len(L) :
         /\ dZone[L[i]].prev = IF i = 1 THEN NULL_CLUSTER ELSE L[i - 1]
         /\ dZone[L[i]].stat = NULL_INODE
    /\ dSb.dZoneFree = dZoneTotal - 1
    /\ dSb.dZoneRetriev.cacheIdx = DZONE_CACHE_SIZE
    /\ dSb.dZoneInsert.cacheIdx = 0

====
